---- MODULE Spec2Model ----
(***************************************************************************)
(* Token Management Core of the WeChat subscription service: credential    *)
(* cache (key schema, TTL math), upstream client (retry layer, circuit     *)
(* breaker), Token Manager (cache-first lookup, singleflight coalescing,   *)
(* proactive refresh, invalidate-and-refresh) and the article pipeline.    *)
(*                                                                         *)
(* Durations are counted in milliseconds (time.Duration is nanoseconds;    *)
(* every duration the code computes here is a whole number of ms).         *)
(***************************************************************************)
EXTENDS Integers, Sequences, FiniteSets, TLC

VARIABLES
    \* ---- cache.CalculateTTL applied to one upstream-reported lifetime
    expiresIn,      \* the expires_in of an upstream response (seconds)
    ttl,            \* the TTL computed for it (ms)
    ttlDone,        \* the TTL has been computed
    \* ---- one HTTPClient endpoint call (client.go)
    maxRetries,     \* HTTPClient.maxRetries
    endpoint,       \* which Client method is being called
    cpc,            \* position inside the call
    attempt,        \* loop variable of doRequestWithRetry
    backoff,        \* local backoff (ms)
    lastErr,        \* local lastErr
    attempts,       \* number of doRequest invocations (HTTP attempts)
    sleeps,         \* the backoff waits that completed, in order
    ctxDone,        \* the caller's context is cancelled
    body,           \* the JSON body decoded by the last successful doRequest
    callResult,     \* what the Client method returned
    \* ---- CircuitBreakerClient: the gobreaker instance and its callers
    cb,             \* state, generation, counts and expiry of the breaker
    callers,        \* per caller: position in Execute and what it got
    seqFails,       \* history: consecutive transport failures of calls that
                    \* ran one after another (no other call in flight)
    elapsed,        \* history: the open timeout has run out since the
                    \* last of those failures
    calls,          \* number of calls made through the breaker so far
    \* ---- TokenServiceImpl / ArticleServiceImpl and what they share
    mode,           \* config.IsSimpleMode: "simple" or "two_level"
    breakerOn,      \* the services' client.Client is the CircuitBreakerClient
    world,          \* how the upstream and the cache behave in this run
    cache,          \* the two cache entries: tenant token, platform token
    sf,             \* singleflight.Group: per key the goroutine running fn
    tasks,          \* the goroutines: operation, position, locals, history
    issued,         \* number of tokens the upstream has issued so far
    lastInv,        \* history: highest value of issued at the start of an
                    \* InvalidateAndRefreshToken that has returned a token
    \* ---- the HTTP and gRPC handlers of the article endpoints
    rq,             \* the request: surface, parameters, position, reply
    \* ---- the cache keys of two identities (cache.go:139-147)
    fk              \* the identities and the keys formatted for them

ttlVars    == <<expiresIn, ttl, ttlDone>>
clientVars == <<maxRetries, endpoint, cpc, attempt, backoff, lastErr,
                attempts, sleeps, ctxDone, body, callResult>>
breakerVars == <<cb, callers, seqFails, elapsed, calls>>
tokenVars  == <<mode, breakerOn, world, cache, sf, tasks, issued, lastInv>>
vars       == <<ttlVars, clientVars, breakerVars, tokenVars, rq, fk>>

----------------------------------------------------------------------------
(* Bounds of the model *)

MaxExpiresIn    == 7300     \* lifetimes 0..MaxExpiresIn seconds are explored
MaxRetriesBound == 7        \* max_retries 0..MaxRetriesBound are explored
NumCallers      == 3        \* concurrent callers of the breaker client
MaxCalls        == 10       \* calls made through the breaker in one run
NumTasks        == 3        \* goroutines of a Token Manager run
NumArticleTasks == 2        \* goroutines of an article pipeline run
NumRequests     == 3        \* article requests followed in a recovery run
MaxIdLen        == 3        \* characters of an identity
NumPipelineTasks == 1       \* requests of a run that keeps their history
NumFaultTasks   == 2        \* goroutines of a run that keeps the cache errors

----------------------------------------------------------------------------
(* Time units and the constants of the source *)

Second      == 1000
Minute      == 60 * Second

\* cache.go:19
SafetyMargin == 5 * Minute
\* client.go:22,28,31,34
DefaultMaxRetries == 3
InitialBackoff    == 100
MaxBackoff        == 5 * Second
BackoffMultiplier == 2

\* models.go:106-113
ErrCodeSuccess            == 0
ErrCodeInvalidCredential  == 40001
ErrCodeAccessTokenExpired == 42001
ErrCodeAPIUnauthorized    == 48001
ErrCodeRateLimited        == 45009

\* Go's integer division truncates toward zero
Quot(a, b) == IF a >= 0 THEN a \div b ELSE -((-a) \div b)

Min(a, b) == IF a < b THEN a ELSE b

----------------------------------------------------------------------------
(* cache.CalculateTTL (cache.go:150-156) *)

CalculateTTL(e) ==
    LET t == e * Second - SafetyMargin
    IN  IF t < 0 THEN Quot(e * Second, 2) ELSE t

\* RedisRepository.SetAuthorizerToken / SetComponentToken compute the TTL of
\* the entry they write (cache.go:85, 109)
SetTokenTTL ==
    /\ ~ttlDone
    /\ ttl' = CalculateTTL(expiresIn)
    /\ ttlDone' = TRUE
    /\ UNCHANGED <<expiresIn, clientVars, breakerVars, tokenVars, rq, fk>>

----------------------------------------------------------------------------
(* HTTPClient (client.go) *)

Endpoints ==
    {"GetAccessToken", "GetComponentAccessToken", "RefreshAuthorizerToken",
     "BatchGetPublishedArticles", "GetPublishedArticle"}

\* the methods that test resp.ErrCode after doRequestWithRetry
\* (client.go:120, 165, 188); the two other response types have no ErrCode
\* field (models.go:20-23, 33-37) and their methods return &resp as decoded
ErrCodeChecked ==
    {"GetAccessToken", "BatchGetPublishedArticles", "GetPublishedArticle"}

ErrCodes ==
    {ErrCodeSuccess, ErrCodeInvalidCredential, ErrCodeAccessTokenExpired,
     ErrCodeRateLimited, ErrCodeAPIUnauthorized}

\* what the upstream answers with HTTP 200: the payload (errcode 0), or an
\* error body that carries only errcode/errmsg
Bodies ==
    {[errcode |-> ErrCodeSuccess, token |-> 1]} \cup
    {[errcode |-> e, token |-> 0] : e \in ErrCodes \ {ErrCodeSuccess}}

\* the errors of doRequest (client.go:264-285)
TransportErrs == {"request_failed", "read_failed", "status", "unmarshal"}

NoBody == [errcode |-> 0, token |-> 0]

\* what a Client method returns: a response or an error
Ok(tok) == [kind |-> "ok", class |-> "none", cause |-> "nil", code |-> 0,
            token |-> tok]
Fault(cl, cause, code) ==
    [kind |-> "fault", class |-> cl, cause |-> cause, code |-> code,
     token |-> 0]
NoResult == [kind |-> "none", class |-> "none", cause |-> "nil", code |-> 0,
             token |-> 0]

\* the loop condition with the last attempt lost
RetryLoopStopsEarly(a, k) == a < k

\* the loop condition of doRequestWithRetry (client.go:204)
RetryLoopContinues(a, k) == a <= k

\* a backoff that is not capped
NextBackoffUncapped(b) == b * BackoffMultiplier

\* backoff = time.Duration(float64(backoff) * BackoffMultiplier), capped
\* (client.go:218-221)
NextBackoff(b) ==
    LET n == b * BackoffMultiplier
    IN  IF n > MaxBackoff THEN MaxBackoff ELSE n

\* entering a Client method: doRequestWithRetry starts (client.go:200-204)
CallEndpoint ==
    /\ cpc = "idle"
    /\ \E ep \in Endpoints : endpoint' = ep
    /\ attempt' = 0
    /\ backoff' = InitialBackoff
    /\ lastErr' = "nil"
    /\ IF RetryLoopContinues(0, maxRetries)
       THEN /\ cpc' = "attempt"
            /\ callResult' = callResult
       ELSE /\ cpc' = "done"
            /\ callResult' = Fault("transport", "nil", 0)
    /\ UNCHANGED <<maxRetries, attempts, sleeps, ctxDone, body, ttlVars, breakerVars, tokenVars, rq, fk>>

\* one doRequest (client.go:224-233, 240-288) that fails: the loop goes on
\* with the next attempt or ends with "all retries exhausted" (client.go:236)
AttemptFails ==
    /\ cpc = "attempt"
    /\ \E e \in TransportErrs :
         /\ ctxDone => e = "request_failed"
         /\ lastErr' = IF ctxDone THEN "ctx_canceled" ELSE e
    /\ attempts' = attempts + 1
    /\ attempt' = attempt + 1
    /\ IF RetryLoopContinues(attempt + 1, maxRetries)
       THEN /\ cpc' = "sleep"
            /\ callResult' = callResult
       ELSE /\ cpc' = "done"
            /\ callResult' = Fault("transport", lastErr', 0)
    /\ UNCHANGED <<maxRetries, endpoint, backoff, sleeps, ctxDone, body,
                   ttlVars, breakerVars, tokenVars, rq, fk>>

\* one doRequest that succeeds (HTTP 200 and a body that decodes): the method
\* then tests the errcode where it does (client.go:119-128, 140, 152,
\* 164-173, 187-196)
AttemptSucceeds ==
    /\ cpc = "attempt"
    /\ ~ctxDone
    /\ \E b \in Bodies :
         /\ body' = b
         /\ callResult' =
              IF endpoint \in ErrCodeChecked /\ b.errcode # 0
              THEN Fault("api", "nil", b.errcode)
              ELSE Ok(b.token)
    /\ attempts' = attempts + 1
    /\ cpc' = "done"
    /\ UNCHANGED <<maxRetries, endpoint, attempt, backoff, lastErr, sleeps,
                   ctxDone, ttlVars, breakerVars, tokenVars, rq, fk>>

\* a select that can take the timer although the context is done
TimerFiresAnyway(done) == TRUE

\* the select of the retry loop blocks on ctx.Done() and on a timer it has
\* just started (client.go:211-215): the timer case is taken when the
\* backoff runs out before the context is done
TimerFires(done) == ~done

\* the select of the retry loop takes the timer (client.go:214-221)
BackoffElapses ==
    /\ cpc = "sleep"
    /\ TimerFires(ctxDone)
    /\ sleeps' = Append(sleeps, backoff)
    /\ backoff' = NextBackoff(backoff)
    /\ cpc' = "attempt"
    /\ UNCHANGED <<maxRetries, endpoint, attempt, lastErr, attempts, ctxDone,
                   body, callResult, ttlVars, breakerVars, tokenVars, rq, fk>>

\* the select of the retry loop takes ctx.Done() (client.go:212-213)
BackoffCancelled ==
    /\ cpc = "sleep"
    /\ ctxDone
    /\ cpc' = "done"
    /\ callResult' = Fault("cancelled", "ctx_canceled", 0)
    /\ UNCHANGED <<maxRetries, endpoint, attempt, backoff, lastErr, attempts,
                   sleeps, ctxDone, body, ttlVars, breakerVars, tokenVars, rq, fk>>

\* the caller cancels its context while the call is running
CancelCall ==
    /\ cpc \in {"attempt", "sleep"}
    /\ ~ctxDone
    /\ ctxDone' = TRUE
    /\ UNCHANGED <<maxRetries, endpoint, cpc, attempt, backoff, lastErr,
                   attempts, sleeps, body, callResult, ttlVars, breakerVars, tokenVars, rq, fk>>

ClientIdle ==
    /\ maxRetries = 0 /\ endpoint = "none" /\ cpc = "idle" /\ attempt = 0
    /\ backoff = 0 /\ lastErr = "nil" /\ attempts = 0 /\ sleeps = <<>>
    /\ ctxDone = FALSE /\ body = NoBody
    /\ callResult = NoResult

TTLIdle == expiresIn = 0 /\ ttl = 0 /\ ttlDone = FALSE

----------------------------------------------------------------------------
(* CircuitBreakerClient: gobreaker.CircuitBreaker configured by            *)
(* NewCircuitBreakerClient, and Execute around every inner Client call     *)

\* gobreaker.Settings of NewCircuitBreakerClient
MaxRequests      == 3
TripThreshold    == 5
OpenTimeout      == 60 * Second

\* a breaker that needs one failure more than configured
ReadyToTripLate(counts) == counts.ConsecutiveFailures > TripThreshold

ReadyToTrip(counts) == counts.ConsecutiveFailures >= TripThreshold

ClearCounts ==
    [Requests |-> 0, ConsecutiveSuccesses |-> 0, ConsecutiveFailures |-> 0]

\* setState: a new generation with cleared counts; the expiry is now+Timeout
\* in the open state and zero in the others (Interval is 0)
SetState(b, s) ==
    [state |-> s, generation |-> b.generation + 1, counts |-> ClearCounts,
     expired |-> FALSE]

\* a breaker that stays open when its expiry has passed
CurrentStateStaysOpen(b) == b

\* currentState: an open breaker whose expiry has passed becomes half-open
\* when it is next observed
CurrentState(b) ==
    IF b.state = "open" /\ b.expired THEN SetState(b, "half-open") ELSE b

\* a half-open breaker that admits one call more than MaxRequests
RejectionLate(b) ==
    IF b.state = "open" THEN "breaker_open"
    ELSE IF b.state = "half-open" /\ b.counts.Requests > MaxRequests
         THEN "too_many"
         ELSE "none"

\* beforeRequest: the error it returns, if any
Rejection(b) ==
    IF b.state = "open" THEN "breaker_open"
    ELSE IF b.state = "half-open" /\ b.counts.Requests >= MaxRequests
         THEN "too_many"
         ELSE "none"

\* beforeRequest on an admitted call: counts.onRequest
OnRequest(b) == [b EXCEPT !.counts.Requests = @ + 1]

\* onSuccess
OnSuccess(b) ==
    LET c == [b.counts EXCEPT !.ConsecutiveSuccesses = @ + 1,
                              !.ConsecutiveFailures = 0]
    IN  IF b.state = "half-open" /\ c.ConsecutiveSuccesses >= MaxRequests
        THEN SetState(b, "closed")
        ELSE [b EXCEPT !.counts = c]

\* onFailure
OnFailure(b) ==
    LET c == [b.counts EXCEPT !.ConsecutiveFailures = @ + 1,
                              !.ConsecutiveSuccesses = 0]
    IN  IF b.state = "closed"
        THEN IF ReadyToTrip(c) THEN SetState(b, "open")
             ELSE [b EXCEPT !.counts = c]
        ELSE IF b.state = "half-open" THEN SetState(b, "open") ELSE b

\* afterRequest: a result of an older generation is dropped
AfterRequest(b, before, success) ==
    LET cur == CurrentState(b)
    IN  IF cur.generation # before THEN cur
        ELSE IF success THEN OnSuccess(cur) ELSE OnFailure(cur)

\* the outcomes of the wrapped client: a response or one of its faults
InnerOutcomes == {"ok", "transport", "api", "cancelled"}

\* a breaker that counts the transport faults only
IsSuccessfulUnlessTransport(o) == o # "transport"

\* the Settings set no IsSuccessful: gobreaker's default, err == nil
IsSuccessful(o) == o = "ok"

Callers == 1..NumCallers

IdleCaller ==
    [st |-> "idle", before |-> 0, outcome |-> "none", overlap |-> FALSE,
     after5 |-> FALSE, inner |-> FALSE]

InFlight(c) == callers[c].st = "inner"

\* cb.Execute up to the call of the wrapped client: beforeRequest admits the
\* call, or the method returns wrapError(ErrOpenState / ErrTooManyRequests)
ExecuteBegin(c) ==
    /\ callers[c].st # "inner"
    /\ calls < MaxCalls
    /\ calls' = calls + 1
    /\ LET cur == CurrentState(cb)
           rej == Rejection(cur)
           others == \E d \in Callers \ {c} : InFlight(d)
           pre == seqFails >= TripThreshold /\ ~elapsed
       IN  IF rej # "none"
           THEN /\ cb' = cur
                /\ callers' = [callers EXCEPT ![c] =
                     [st |-> "returned", before |-> cur.generation,
                      outcome |-> rej, overlap |-> FALSE, after5 |-> pre,
                      inner |-> FALSE]]
           ELSE /\ cb' = OnRequest(cur)
                /\ callers' = [d \in Callers |->
                     IF d = c
                     THEN [st |-> "inner", before |-> cur.generation,
                           outcome |-> "none", overlap |-> others,
                           after5 |-> pre, inner |-> TRUE]
                     ELSE IF InFlight(d)
                          THEN [callers[d] EXCEPT !.overlap = TRUE]
                          ELSE callers[d]]
    /\ UNCHANGED <<seqFails, elapsed, ttlVars, clientVars, tokenVars, rq, fk>>

\* the wrapped client returns: afterRequest, then the method returns the
\* response or wrapError(err)
ExecuteEnd(c) ==
    /\ callers[c].st = "inner"
    /\ \E o \in InnerOutcomes :
         /\ cb' = AfterRequest(cb, callers[c].before, IsSuccessful(o))
         /\ callers' = [callers EXCEPT ![c].st = "returned",
                                       ![c].outcome = o]
         /\ seqFails' = IF o = "transport" /\ ~callers[c].overlap
                        THEN Min(seqFails + 1, TripThreshold)
                        ELSE 0
         /\ elapsed' = IF o = "transport" /\ ~callers[c].overlap
                       THEN FALSE
                       ELSE elapsed
    /\ UNCHANGED <<calls, ttlVars, clientVars, tokenVars, rq, fk>>

\* the clock passes the expiry of the open state
OpenTimeoutElapses ==
    /\ cb.state = "open"
    /\ ~cb.expired
    /\ cb' = [cb EXCEPT !.expired = TRUE]
    /\ elapsed' = TRUE
    /\ UNCHANGED <<callers, seqFails, calls, ttlVars, clientVars, tokenVars, rq, fk>>

\* gobreaker.NewCircuitBreaker: closed, generation 0
NewBreaker ==
    [state |-> "closed", generation |-> 0, counts |-> ClearCounts,
     expired |-> FALSE]

BreakerIdle ==
    /\ cb = NewBreaker
    /\ callers = [c \in Callers |-> IdleCaller]
    /\ seqFails = 0
    /\ elapsed = FALSE
    /\ calls = 0

----------------------------------------------------------------------------
(* TokenServiceImpl (token_service.go) and ArticleServiceImpl              *)
(* (article_service.go).  Every call is a goroutine that takes one step    *)
(* per access to something shared: a cache operation, the singleflight     *)
(* group, the start and the return of a client call.  Tokens are numbered  *)
(* in the order the upstream issues them; 0 stands for the empty string.   *)

\* token_service.go:19
ProactiveRefreshThreshold == 10 * Minute

\* the expires_in of an issued token
TokenLifetime == 7200

\* tenant tokens are numbered in the order the upstream issues them; for the
\* platform token only its presence matters
PlatformToken == 1

Modes == {"simple", "two_level"}

\* the cache entries and coalescing keys of the model: the tenant token of
\* a tenant-id that is in the configuration ("auth"), the platform token
\* ("comp"), and the tenant token of a tenant-id that is not in the
\* configuration ("anon")
Keys == {"auth", "comp", "anon"}

Absent == [tok |-> 0, rem |-> "none"]

EmptyCache == [k \in Keys |-> Absent]

NoFlights == [k \in Keys |-> 0]

\* what redis TTL reports for an entry that was written with TTL d: no expiry
\* (d = 0), less than the refresh threshold, or at least the threshold
Remaining(d) ==
    IF d = 0 THEN "persist"
    ELSE IF d < ProactiveRefreshThreshold THEN "near" ELSE "far"

\* a put that stores nothing
EntryDropped(tok) == Absent

\* SetAuthorizerToken / SetComponentToken: the entry written for a token.  An
\* empty token is stored as an empty string, which every lookup reads as a
\* miss, like an absent entry
Entry(tok) ==
    IF tok = 0 THEN Absent
    ELSE [tok |-> tok, rem |-> Remaining(CalculateTTL(TokenLifetime))]

\* a hit path that refreshes whenever the entry has an expiry
NeedsRefreshWithExpiry(e) == e.rem \in {"near", "far"}

\* err == nil && ttl > 0 && ttl < ProactiveRefreshThreshold
NeedsRefresh(e) == e.rem = "near"

\* the cache errors that the service only logs (token_service.go:68-76,
\* 144-152, 245-252, 319-327, 375-383, 440-446) are kept in the history of
\* the call in the runs that follow them
Logged(b) == world.audit /\ b

\* the history of a TTL probe of entry e that failed (err) or not, and of the
\* background refresh it led to
NoteProbe(r, e, err) ==
    IF ~Logged(TRUE) THEN r
    ELSE [r EXCEPT !.probe = IF err THEN "err"
                             ELSE IF e.rem = "none" THEN "gone" ELSE e.rem,
                   !.spawned = ~err /\ NeedsRefresh(e)]

\* a call that returns the error of its cache lookup
LookupErrorIsFatal(err) == err

\* the error of the cache lookup is logged and the call goes on
\* (token_service.go:68-76, 144-152)
LookupErrorEnds(err) == FALSE

\* RedisRepository.GetAuthorizerToken / GetComponentToken: the stored value,
\* or "" with an error; "" without an error when the key is absent
\* (cache.go:70-80, 94-104)
LookupValue(k, err) == IF err THEN 0 ELSE cache[k].tok

\* a call that returns the error of its cache put
PutErrorIsFatal(err) == err

\* the error of the cache put is logged and the token is returned
\* (token_service.go:245-264, 319-340, 375-395)
PutErrorEnds(err) == FALSE

\* a refresh that goes on to the cache put whatever the client returned
FetchFaultIgnored(res) == FALSE

\* err != nil after the client call: the refresh returns the fault
\* (token_service.go:229-238, 303-312, 359-368)
FetchFaultEnds(res) == res.kind # "ok"

\* the history of a client call that returned an error
NoteFault(r, k, res) ==
    IF Logged(res.kind # "ok")
    THEN [r EXCEPT !.upErr = k,
                   !.rej = IF res.class \in {"breaker_open", "too_many"}
                           THEN res.class ELSE @]
    ELSE r

\* the history of a call that Do returns to: the goroutine that ran fn
ServedBy(r, t) == IF Logged(TRUE) THEN [r EXCEPT !.src = t] ELSE r

\* a lookup that is never taken for a hit
IsHitNever(v) == FALSE

\* token != ""
IsHit(v) == v # 0

\* a group that starts fn whether or not a call is in flight
SfNeverInFlight(k) == FALSE

\* a group in which every caller waits for a call in flight
SfAlwaysInFlight(k) == TRUE

\* singleflight.Group.Do: a call for the key is in flight
SfInFlight(k) == sf[k] # 0

\* a pipeline that takes the recovery path after the second call as well
RetriesOnEveryExpiry(ph) == ph \in {"first", "second"}

\* the recovery path is taken after the first article call only
RetriesOnExpiry(ph) == ph = "first"

ExpiredCodes == {ErrCodeInvalidCredential, ErrCodeAccessTokenExpired}

\* strings.Contains
Contains(text, pat) ==
    \E i \in 0..(Len(text) - Len(pat)) :
        \A j \in 1..Len(pat) : text[i + j] = pat[j]

\* err.Error() of what a client method returned.  A text is the sequence of
\* its pieces: the piece "code=", single digits, and pieces that hold no part
\* of "code=".  %d is the decimal numeral of the errcode and %s the errmsg
\* of the body, which may quote another code (client.go:171, 194, 213, 236,
\* 266-285; wrapError of the breaker client)
ErrorText(res) ==
    LET RECURSIVE Numeral(_)
        Numeral(n) == IF n < 0 THEN <<"-">> \o Numeral(-n)
                      ELSE IF n < 10 THEN <<ToString(n)>>
                      ELSE Numeral(n \div 10) \o <<ToString(n % 10)>>
    IN  CASE res.class = "api" ->
               <<"wechat api error: ", "code=">> \o Numeral(res.code) \o
               <<", msg=">> \o
               (IF res.cause = "quotes 40001"
                THEN <<"rid of ", "code=">> \o Numeral(40001)
                ELSE <<res.cause>>)
          [] res.class = "transport" ->
               <<"all retries exhausted: ">> \o
               (IF res.cause = "status"
                THEN <<"unexpected status code: ">> \o Numeral(500)
                ELSE <<"request failed: ", res.cause>>)
          [] res.class = "cancelled" -> <<"context canceled">>
          [] res.class = "breaker_open" ->
               <<"wechat api circuit breaker is open: ",
                 "circuit breaker is open">>
          [] res.class = "too_many" ->
               <<"wechat api circuit breaker: too many requests in ",
                 "half-open state: ", "too many requests">>
          [] OTHER -> <<res.class>>

\* isTokenExpiredError: the error text holds code=40001 or code=42001
IsTokenExpiredError(res) ==
    /\ res.kind = "fault"
    /\ \/ Contains(ErrorText(res), <<"code=", "4", "0", "0", "0", "1">>)
       \/ Contains(ErrorText(res), <<"code=", "4", "2", "0", "0", "1">>)

NewTask ==
    [op |-> "none", pc |-> "idle", phase |-> "none", tok |-> 0, ctok |-> 0,
     ares |-> NoResult, cres |-> NoResult, ret |-> NoResult, before |-> 0,
     \* history of the call
     lookup |-> 0, miss |-> FALSE, peers |-> {}, upcalls |-> 0,
     fetched |-> 0, floor |-> 0, mark |-> 0, expired1 |-> FALSE,
     invCalls |-> 0, refetched |-> 0, refreshed |-> "none", artCalls |-> 0,
     \* the request's context is done; it was done while the goroutine was
     \* blocked in Do (history)
     cancelled |-> FALSE, cwait |-> FALSE,
     \* InvalidateAndRefreshToken: the token its failed delete left in the
     \* cache; the cache still held that token when it returned (history)
     held |-> 0, stale |-> FALSE,
     \* the cache lookup of the call returned an error (history)
     readErr |-> FALSE,
     \* the cache put of the call returned an error; the token it was to
     \* store (history)
     putErr |-> FALSE, unsaved |-> 0,
     \* the client call of the call that returned an error: "auth" for the
     \* tenant endpoint, "comp" for the platform endpoint, "art" for an
     \* article endpoint rejected by the breaker; the goroutine
     \* whose fn produced the result that Do returned to the call (history)
     upErr |-> "none", src |-> 0,
     \* the error of the breaker that rejected a client call of the call
     \* (history)
     rej |-> "none",
     \* what the TTL probe of the call's cache hit reported: "err", "gone"
     \* (no entry), "persist" (no expiry), "near" or "far"; the call started
     \* a background refresh (history)
     probe |-> "none", spawned |-> FALSE,
     \* the results of the first and the second article call of the request
     \* (history)
     first |-> NoResult, second |-> NoResult,
     \* the tokens the article calls of the request carried, in order, and
     \* what its InvalidateAndRefreshToken returned (history)
     sent |-> <<>>, fresh |-> NoResult,
     \* the tenant-id of the call, by its key
     key |-> "auth"]

TaskSlots(n) == [t \in 1..n |-> NewTask]

FreeSlots == {u \in DOMAIN tasks : tasks[u].op = "none"}

\* a new goroutine takes the first free slot
IsNextFree(t) == t \in FreeSlots /\ \A u \in FreeSlots : t <= u

\* go s.refreshAuthorizerToken(...) / go s.refreshComponentToken(...)
WithSpawn(f, op, pc, k) ==
    LET u == CHOOSE x \in FreeSlots : \A y \in FreeSlots : x <= y
    IN  [f EXCEPT ![u] = [NewTask EXCEPT !.op = op, !.pc = pc, !.key = k]]

\* the call returns res to its caller; the goroutine ends.  A background
\* refresh has no caller: it logs the error of its Do (token_service.go:
\* 403-409, 419-426)
Finish(r, res) ==
    [r EXCEPT !.pc = "done", !.tok = 0, !.ctok = 0, !.ares = NoResult,
              !.cres = NoResult, !.before = 0, !.mark = 0, !.held = 0,
              !.ret = IF r.op \in {"BGA", "BGC"} /\ ~Logged(TRUE)
                      THEN NoResult ELSE res]

\* the goroutine is inside InvalidateAndRefreshToken
InvRole(r) == r.op = "INV" \/ (r.op = "ART" /\ r.phase = "refresh")

\* GetAuthorizerToken / InvalidateAndRefreshToken return res: to the caller
\* of the Token Manager, or to the article pipeline, which returns a fault
\* and goes on to the article call with a token
AuthReturn(r0, res) ==
    LET r == IF Logged(r0.op = "ART" /\ r0.phase = "refresh")
             THEN [r0 EXCEPT !.fresh = res] ELSE r0
    IN  IF r.op = "ART" /\ res.kind = "ok"
        THEN [r EXCEPT !.pc = "a_call", !.tok = res.token, !.ctok = 0,
                       !.ares = NoResult, !.cres = NoResult, !.before = 0,
                       !.mark = 0, !.held = 0,
                       !.phase = IF r.phase = "token" THEN "first" ELSE "second",
                       !.refreshed = IF r.phase = "refresh" THEN "ok" ELSE @]
        ELSE Finish([r EXCEPT !.refreshed =
                         IF r.op = "ART" /\ r.phase = "refresh" THEN "fault"
                         ELSE @],
                    res)

\* fetchAndCacheAuthorizerToken / fetchAndCacheSimpleModeToken return res: to
\* InvalidateAndRefreshToken, or to singleflight's doCall
ClosureEnd(r, res) ==
    IF InvRole(r) THEN AuthReturn(r, res)
    ELSE [r EXCEPT !.pc = "ga_release", !.ares = res, !.tok = 0, !.ctok = 0,
                   !.cres = NoResult, !.before = 0]

\* GetComponentToken returns res: to its caller, or to
\* fetchAndCacheAuthorizerToken, which returns a fault and goes on to
\* RefreshAuthorizerToken with a token
CompReturn(r, res) ==
    IF r.op \in {"GC", "BGC"} THEN Finish(r, res)
    ELSE IF res.kind = "fault" THEN ClosureEnd(r, res)
    ELSE [r EXCEPT !.pc = "f_call", !.ctok = res.token, !.cres = NoResult]

\* where the refresh of a tenant token starts: the client call in simple
\* mode, GetComponentToken in two-level mode
FetchEntry == IF mode = "simple" THEN "f_call" ELSE "gc_lookup"

\* a refresh that takes every tenant-id for a configured one
FoundAlways(k) == TRUE

\* GetSimpleAccountByAppID / GetAuthorizerByAppID: found
\* (token_service.go:273-276, 349-352)
Found(k) == k # "anon"

\* "account not found in simple_mode.accounts" / "authorizer not found"
UnknownTenant == Fault("unknown_tenant", "nil", 0)

AuthEndpoint ==
    IF mode = "simple" THEN "GetAccessToken" ELSE "RefreshAuthorizerToken"

\* what a token method of the HTTPClient returns: the issued token, a
\* transport fault, and for a non-zero errcode a fault where the method tests
\* it and the decoded body with an empty token where it does not
TokenReplies(ep, fresh) ==
    IF world.healthy THEN {Ok(fresh)}
    ELSE {Ok(fresh), Fault("transport", "nil", 0)} \cup
         IF ep \in ErrCodeChecked
         THEN {Fault("api", "nil", c) : c \in ErrCodes \ {ErrCodeSuccess}}
         ELSE {Ok(0)}

\* what an article method of the HTTPClient returns for the token it sends;
\* an upstream that is not held to the errcodes of models.go also sends
\* longer and negative errcodes, an errmsg that quotes another code, and a
\* status other than 200
ArticleReplies(tok) ==
    IF world.healthy
    THEN IF tok > world.expiredUpTo THEN {Ok(1)}
         ELSE {Fault("api", "nil", c) : c \in ExpiredCodes}
    ELSE {Ok(1), Fault("transport", "nil", 0)} \cup
         {Fault("api", "nil", c) : c \in ErrCodes \ {ErrCodeSuccess}} \cup
         IF world.odd
         THEN {Fault("api", "nil", 400010), Fault("api", "nil", 140001),
               Fault("api", "nil", -1), Fault("transport", "status", 0),
               Fault("api", "quotes 40001", ErrCodeRateLimited)}
         ELSE {}

\* the error of a client call whose context is done (client.go:212-213,
\* 264-268)
CtxFault == Fault("cancelled", "ctx_canceled", 0)

\* what the client call of goroutine r returns: once the context is done the
\* context error, or "all retries exhausted" around it when the last attempt
\* was the one that failed (client.go:236); otherwise one of the upstream's
\* replies
ClientReplies(r, replies) ==
    IF r.cancelled THEN {CtxFault, Fault("transport", "ctx_canceled", 0)}
    ELSE replies

\* a cache operation of goroutine r cannot fail: the cache works and the
\* context that is passed to redis is live
CacheSure(r) == world.healthy /\ ~r.cancelled

\* a breaker client that lets every call through
AdmittedAlways == TRUE

\* cb.Execute up to the wrapped call, when the client is the breaker client
Admitted == ~breakerOn \/ Rejection(CurrentState(cb)) = "none"

Rejected == Fault(Rejection(CurrentState(cb)), "nil", 0)

CbBefore ==
    IF ~breakerOn THEN cb
    ELSE IF Admitted THEN OnRequest(CurrentState(cb)) ELSE CurrentState(cb)

\* cb.Execute after the wrapped call: success is err == nil
CbAfter(before, res) ==
    IF breakerOn THEN AfterRequest(cb, before, res.kind = "ok") ELSE cb

\* GetAuthorizerToken calls that saw a miss and have not returned yet
MissPeers(k) ==
    {u \in DOMAIN tasks :
        /\ tasks[u].op = "GA" /\ tasks[u].key = k
        /\ tasks[u].miss /\ tasks[u].pc # "done"}

\* the goroutine is inside the fn of a Do for the key
RunsFn(r, k) ==
    IF k = "comp" THEN r.pc \in {"cf_call", "cf_api", "cf_put", "gc_release"}
    ELSE /\ ~InvRole(r)
         /\ r.key = k
         /\ r.pc \in {"gc_lookup", "gc_ttl", "gc_do", "gc_wait", "cf_call",
                      "cf_api", "cf_put", "gc_release", "f_call", "f_api",
                      "f_put", "ga_release"}
         /\ r.op \notin {"GC", "BGC"}

\* fetchAndCacheSimpleModeToken / fetchAndCacheAuthorizerToken start with the
\* lookup of the tenant-id in the configuration (token_service.go:273-276,
\* 349-352)
ClosureBegin(r) ==
    IF Found(r.key) THEN [r EXCEPT !.pc = FetchEntry]
    ELSE ClosureEnd(r, UnknownTenant)

\* what no step of a goroutine changes
fixedVars == <<ttlVars, clientVars, callers, seqFails, elapsed, calls, mode,
               breakerOn, world, rq, fk>>

\* GetAuthorizerToken up to the cache lookup (token_service.go:135-154): a
\* failed lookup is logged and reads as a miss
AuthLookup(t, op, k) ==
    /\ IsNextFree(t)
    /\ \E err \in BOOLEAN :
         /\ world.healthy => ~err
         /\ LET v == LookupValue(k, err)
                r == [NewTask EXCEPT
                        !.op = op, !.key = k, !.lookup = v, !.floor = lastInv,
                        !.readErr = Logged(err),
                        !.phase = IF op = "ART" THEN "token" ELSE "none"]
            IN  tasks' = [tasks EXCEPT ![t] =
                    IF LookupErrorEnds(err)
                    THEN Finish(r, Fault("cache", "nil", 0))
                    ELSE IF IsHit(v)
                    THEN [r EXCEPT !.pc = "ga_ttl", !.tok = v]
                    ELSE [r EXCEPT !.pc = "ga_do", !.miss = TRUE,
                                   !.peers = MissPeers(k)]]
    /\ UNCHANGED <<cache, sf, issued, lastInv, cb, fixedVars>>

StartGetAuthorizerToken(t) == AuthLookup(t, "GA", "auth")

\* GetAuthorizerToken for a tenant-id that is not in the configuration
StartGetUnknownTenant(t) == AuthLookup(t, "GA", "anon")

\* BatchGetPublishedArticles / GetPublishedArticle up to the token lookup
\* (article_service.go:70-84, 196-209)
StartArticle(t) == AuthLookup(t, "ART", "auth")

\* the hit path: TTL probe, the background refresh if the entry is close to
\* its expiry, and the return of the cached token (token_service.go:155-175)
AuthProbe(t) ==
    /\ tasks[t].pc = "ga_ttl"
    /\ \E err \in BOOLEAN :
         /\ CacheSure(tasks[t]) => ~err
         /\ LET e == cache[tasks[t].key]
                f == [tasks EXCEPT ![t] =
                        AuthReturn(NoteProbe(tasks[t], e, err),
                                   Ok(tasks[t].tok))]
            IN  IF ~err /\ NeedsRefresh(e)
                THEN /\ FreeSlots # {}
                     /\ tasks' = WithSpawn(f, "BGA", "ga_do", tasks[t].key)
                ELSE tasks' = f
    /\ UNCHANGED <<cache, sf, issued, lastInv, cb, fixedVars>>

\* sfGroup.Do("authorizer_token:"+id, ...) is entered (token_service.go:185,
\* 414): the goroutine runs fn, or waits for the call in flight
AuthDo(t) ==
    /\ tasks[t].pc = "ga_do"
    /\ IF SfInFlight(tasks[t].key)
       THEN /\ tasks' = [tasks EXCEPT ![t].pc = "ga_wait"]
            /\ sf' = sf
       ELSE /\ tasks' = [tasks EXCEPT ![t] = ClosureBegin(@)]
            /\ sf' = [sf EXCEPT ![tasks[t].key] = t]
    /\ UNCHANGED <<cache, issued, lastInv, cb, fixedVars>>

\* fn has returned: the call leaves the group, and Do returns its result to
\* the goroutine that ran fn and to every waiter (token_service.go:185-212,
\* 413-427)
AuthRelease(t) ==
    /\ tasks[t].pc = "ga_release"
    /\ sf' = [sf EXCEPT ![tasks[t].key] = 0]
    /\ tasks' = [u \in DOMAIN tasks |->
          IF u = t THEN AuthReturn(ServedBy(tasks[t], t), tasks[t].ares)
          ELSE IF tasks[u].pc = "ga_wait" /\ tasks[u].key = tasks[t].key
               THEN AuthReturn(ServedBy(tasks[u], t), tasks[t].ares)
               ELSE tasks[u]]
    /\ UNCHANGED <<cache, issued, lastInv, cb, fixedVars>>

\* the client call of fetchAndCacheSimpleModeToken / fetchAndCacheAuthorizerToken
\* starts (token_service.go:300, 356)
AuthFetchBegin(t) ==
    /\ tasks[t].pc = "f_call"
    /\ cb' = CbBefore
    /\ tasks' = [tasks EXCEPT ![t] =
          IF Admitted
          THEN [@ EXCEPT !.pc = "f_api", !.upcalls = @ + 1,
                         !.before = CurrentState(cb).generation,
                         !.fetched = IF InvRole(tasks[t]) THEN @ ELSE @ + 1,
                         !.refetched = IF InvRole(tasks[t]) THEN @ + 1 ELSE @]
          ELSE ClosureEnd(NoteFault(@, "auth", Rejected), Rejected)]
    /\ UNCHANGED <<cache, sf, issued, lastInv, fixedVars>>

\* the client call returns (token_service.go:300-312, 356-368)
AuthFetchEnd(t) ==
    /\ tasks[t].pc = "f_api"
    /\ \E res \in ClientReplies(tasks[t],
                               TokenReplies(AuthEndpoint, issued + 1)) :
         /\ cb' = CbAfter(tasks[t].before, res)
         /\ issued' = IF res.kind = "ok" /\ res.token # 0
                      THEN issued + 1 ELSE issued
         /\ tasks' = [tasks EXCEPT ![t] =
               IF FetchFaultEnds(res)
               THEN ClosureEnd(NoteFault(@, "auth", res), res)
               ELSE [NoteFault(@, "auth", res) EXCEPT
                        !.pc = "f_put", !.tok = res.token, !.before = 0]]
    /\ UNCHANGED <<cache, sf, lastInv, fixedVars>>

\* SetAuthorizerToken, whose failure is logged, and the return of the token
\* (token_service.go:316-340, 372-395)
AuthPut(t) ==
    /\ tasks[t].pc = "f_put"
    /\ \E written \in BOOLEAN :
         /\ CacheSure(tasks[t]) => written
         /\ cache' = IF written
                     THEN [cache EXCEPT ![tasks[t].key] = Entry(tasks[t].tok)]
                     ELSE cache
         /\ tasks' = [tasks EXCEPT ![t] =
               LET r == [@ EXCEPT
                          !.stale = /\ InvRole(tasks[t])
                                    /\ tasks[t].held # 0
                                    /\ cache'[tasks[t].key].tok = tasks[t].held,
                          !.putErr = Logged(~written),
                          !.unsaved = IF Logged(~written) THEN tasks[t].tok
                                      ELSE 0]
               IN  IF PutErrorEnds(~written)
                   THEN ClosureEnd(r, Fault("cache", "nil", 0))
                   ELSE ClosureEnd(r, Ok(tasks[t].tok))]
    /\ lastInv' = IF InvRole(tasks[t]) /\ tasks[t].mark > lastInv
                  THEN tasks[t].mark ELSE lastInv
    /\ UNCHANGED <<sf, issued, cb, fixedVars>>

\* GetComponentToken up to the cache lookup (token_service.go:58-78)
CompLookupStep(t, r) ==
    \E err \in BOOLEAN :
        /\ CacheSure(r) => ~err
        /\ LET v == LookupValue("comp", err)
           IN  tasks' = [tasks EXCEPT ![t] =
                 IF LookupErrorEnds(err)
                 THEN CompReturn(r, Fault("cache", "nil", 0))
                 ELSE IF IsHit(v)
                 THEN [r EXCEPT !.pc = "gc_ttl", !.ctok = v,
                                !.lookup = IF r.op = "GC" THEN v ELSE @]
                 ELSE [r EXCEPT !.pc = "gc_do",
                                !.miss = IF r.op = "GC" THEN TRUE ELSE @,
                                !.readErr = IF r.op = "GC" THEN Logged(err)
                                            ELSE @]]

StartGetComponentToken(t) ==
    /\ IsNextFree(t)
    /\ mode = "two_level"
    /\ CompLookupStep(t, [NewTask EXCEPT !.op = "GC"])
    /\ UNCHANGED <<cache, sf, issued, lastInv, cb, fixedVars>>

\* GetComponentToken called by fetchAndCacheAuthorizerToken
\* (token_service.go:273-280)
CompLookup(t) ==
    /\ tasks[t].pc = "gc_lookup"
    /\ CompLookupStep(t, tasks[t])
    /\ UNCHANGED <<cache, sf, issued, lastInv, cb, fixedVars>>

\* the hit path of GetComponentToken (token_service.go:79-98)
CompProbe(t) ==
    /\ tasks[t].pc = "gc_ttl"
    /\ \E err \in BOOLEAN :
         /\ CacheSure(tasks[t]) => ~err
         /\ LET e == cache["comp"]
                f == [tasks EXCEPT ![t] =
                        CompReturn(NoteProbe(tasks[t], e, err),
                                   Ok(tasks[t].ctok))]
            IN  IF ~err /\ NeedsRefresh(e)
                THEN /\ FreeSlots # {}
                     /\ tasks' = WithSpawn(f, "BGC", "gc_do", "auth")
                ELSE tasks' = f
    /\ UNCHANGED <<cache, sf, issued, lastInv, cb, fixedVars>>

\* sfGroup.Do("component_token:"+id, ...) is entered (token_service.go:108,
\* 400)
CompDo(t) ==
    /\ tasks[t].pc = "gc_do"
    /\ IF SfInFlight("comp")
       THEN /\ tasks' = [tasks EXCEPT ![t].pc = "gc_wait"]
            /\ sf' = sf
       ELSE /\ tasks' = [tasks EXCEPT ![t].pc = "cf_call"]
            /\ sf' = [sf EXCEPT !["comp"] = t]
    /\ UNCHANGED <<cache, issued, lastInv, cb, fixedVars>>

\* the client call of fetchAndCacheComponentToken starts
\* (token_service.go:226)
CompFetchBegin(t) ==
    /\ tasks[t].pc = "cf_call"
    /\ cb' = CbBefore
    /\ tasks' = [tasks EXCEPT ![t] =
          IF Admitted
          THEN [@ EXCEPT !.pc = "cf_api", !.upcalls = @ + 1,
                         !.before = CurrentState(cb).generation]
          ELSE [NoteFault(@, "comp", Rejected) EXCEPT
                   !.pc = "gc_release", !.cres = Rejected]]
    /\ UNCHANGED <<cache, sf, issued, lastInv, fixedVars>>

\* the client call returns (token_service.go:226-238)
CompFetchEnd(t) ==
    /\ tasks[t].pc = "cf_api"
    /\ \E res \in ClientReplies(tasks[t],
             TokenReplies("GetComponentAccessToken", PlatformToken)) :
         /\ cb' = CbAfter(tasks[t].before, res)
         /\ tasks' = [tasks EXCEPT ![t] =
               IF FetchFaultEnds(res)
               THEN [NoteFault(@, "comp", res) EXCEPT
                        !.pc = "gc_release", !.cres = res, !.before = 0]
               ELSE [NoteFault(@, "comp", res) EXCEPT
                        !.pc = "cf_put", !.ctok = res.token, !.before = 0]]
    /\ UNCHANGED <<cache, sf, issued, lastInv, fixedVars>>

\* SetComponentToken, whose failure is logged, and the return of the token
\* (token_service.go:242-264)
CompPut(t) ==
    /\ tasks[t].pc = "cf_put"
    /\ \E written \in BOOLEAN :
         /\ CacheSure(tasks[t]) => written
         /\ cache' = IF written
                     THEN [cache EXCEPT !["comp"] = Entry(tasks[t].ctok)]
                     ELSE cache
         /\ tasks' = [tasks EXCEPT ![t] =
               [@ EXCEPT !.pc = "gc_release", !.ctok = 0,
                         !.cres = IF PutErrorEnds(~written)
                                  THEN Fault("cache", "nil", 0)
                                  ELSE Ok(tasks[t].ctok),
                         !.putErr = IF tasks[t].op = "GC"
                                    THEN Logged(~written) ELSE @,
                         !.unsaved = IF tasks[t].op = "GC" /\ Logged(~written)
                                     THEN tasks[t].ctok ELSE @]]
    /\ UNCHANGED <<sf, issued, lastInv, cb, fixedVars>>

\* fn has returned: the call leaves the group, and Do returns its result to
\* the goroutine that ran fn and to every waiter (token_service.go:108-131,
\* 399-410)
CompRelease(t) ==
    /\ tasks[t].pc = "gc_release"
    /\ sf' = [sf EXCEPT !["comp"] = 0]
    /\ tasks' = [u \in DOMAIN tasks |->
          IF u = t THEN CompReturn(tasks[t], tasks[t].cres)
          ELSE IF tasks[u].pc = "gc_wait"
               THEN CompReturn(IF tasks[u].op = "GC"
                               THEN ServedBy(tasks[u], t) ELSE tasks[u],
                               tasks[t].cres)
               ELSE tasks[u]]
    /\ UNCHANGED <<cache, issued, lastInv, cb, fixedVars>>

\* InvalidateAndRefreshToken up to the refresh: DeleteToken, whose failure
\* is logged (token_service.go:430-456)
InvalidateStep(t, r) ==
    \E deleted \in BOOLEAN :
        /\ CacheSure(r) => deleted
        /\ cache' = IF deleted THEN [cache EXCEPT ![r.key] = Absent]
                    ELSE cache
        /\ tasks' = [tasks EXCEPT ![t] =
              ClosureBegin(
                [r EXCEPT !.mark = issued,
                          !.held = IF Logged(~deleted) THEN cache[r.key].tok
                                   ELSE 0,
                          !.invCalls = @ + 1])]

StartInvalidate(t) ==
    /\ IsNextFree(t)
    /\ InvalidateStep(t, [NewTask EXCEPT !.op = "INV"])
    /\ UNCHANGED <<sf, issued, lastInv, cb, fixedVars>>

\* InvalidateAndRefreshToken for a tenant-id that is not in the configuration
StartInvalidateUnknown(t) ==
    /\ IsNextFree(t)
    /\ InvalidateStep(t, [NewTask EXCEPT !.op = "INV", !.key = "anon"])
    /\ UNCHANGED <<sf, issued, lastInv, cb, fixedVars>>

\* the recovery path of the pipeline calls InvalidateAndRefreshToken
\* (article_service.go:115-125, 234-245)
ArticleInvalidate(t) ==
    /\ tasks[t].pc = "a_inv"
    /\ InvalidateStep(t, tasks[t])
    /\ UNCHANGED <<sf, issued, lastInv, cb, fixedVars>>

\* the client method of the article call returns res to the pipeline: the
\* first call's credential-expired fault leads to the recovery path, every
\* other result is returned (article_service.go:111-188, 230-310)
ArticleReturn(r0, res) ==
    LET r == IF ~Logged(TRUE) THEN r0
             ELSE IF r0.phase = "first" THEN [r0 EXCEPT !.first = res]
             ELSE [r0 EXCEPT !.second = res]
    IN  IF RetriesOnExpiry(r.phase) /\ IsTokenExpiredError(res)
        THEN [r EXCEPT !.pc = "a_inv", !.phase = "refresh",
                       !.expired1 = TRUE, !.tok = 0, !.before = 0]
        ELSE Finish(r, res)

\* the article call starts (article_service.go:111, 146, 230, 266)
ArticleBegin(t) ==
    /\ tasks[t].pc = "a_call"
    /\ cb' = CbBefore
    /\ tasks' = [tasks EXCEPT ![t] =
          LET r == [@ EXCEPT !.artCalls = @ + 1,
                             !.sent = IF Logged(TRUE) THEN Append(@, tasks[t].tok)
                                      ELSE @]
          IN  IF Admitted
              THEN [r EXCEPT !.pc = "a_api", !.upcalls = @ + 1,
                             !.before = CurrentState(cb).generation]
              ELSE ArticleReturn(NoteFault(r, "art", Rejected), Rejected)]
    /\ UNCHANGED <<cache, sf, issued, lastInv, fixedVars>>

\* the article call returns (article_service.go:111, 146, 230, 266)
ArticleEnd(t) ==
    /\ tasks[t].pc = "a_api"
    /\ \E res \in ClientReplies(tasks[t], ArticleReplies(tasks[t].tok)) :
         /\ cb' = CbAfter(tasks[t].before, res)
         /\ tasks' = [tasks EXCEPT ![t] = ArticleReturn(@, res)]
    /\ UNCHANGED <<cache, sf, issued, lastInv, fixedVars>>

\* the context of a request is cancelled while the request is running; the
\* background refreshes run on context.Background() (token_service.go:95,
\* 172), which is never done
CancelRequest(t) ==
    /\ tasks[t].op \in {"GA", "GC", "INV", "ART"}
    /\ tasks[t].pc # "done"
    /\ ~tasks[t].cancelled
    /\ tasks' = [tasks EXCEPT ![t].cancelled = TRUE,
                              ![t].cwait = tasks[t].pc \in {"ga_wait", "gc_wait"}]
    /\ UNCHANGED <<cache, sf, issued, lastInv, cb, fixedVars>>

\* time passes for a cache entry: it comes close to its expiry, then expires
CacheAges(k) ==
    /\ cache[k].rem \in {"far", "near"}
    /\ cache' = [cache EXCEPT ![k] =
          IF cache[k].rem = "far" THEN [@ EXCEPT !.rem = "near"] ELSE Absent]
    /\ UNCHANGED <<sf, tasks, issued, lastInv, cb, fixedVars>>

\* an upstream and a cache that can fail at every call
AnyWorld ==
    [healthy |-> FALSE, expiredUpTo |-> 0, audit |-> FALSE, odd |-> FALSE]

TokenIdle ==
    /\ mode = "simple" /\ breakerOn = FALSE /\ world = AnyWorld
    /\ cache = EmptyCache /\ sf = NoFlights /\ tasks = <<>>
    /\ issued = 0 /\ lastInv = 0

----------------------------------------------------------------------------
(* The key schema of the cache (cache.go:13-16, 139-147).  A string is the  *)
(* sequence of its characters; the verb %s of a format is one element.      *)

\* "wechat:token:component:%s"
ComponentTokenKeyFormat ==
    <<"w", "e", "c", "h", "a", "t", ":", "t", "o", "k", "e", "n", ":",
      "c", "o", "m", "p", "o", "n", "e", "n", "t", ":", "%s">>

\* "wechat:token:authorizer:%s"
AuthorizerTokenKeyFormat ==
    <<"w", "e", "c", "h", "a", "t", ":", "t", "o", "k", "e", "n", ":",
      "a", "u", "t", "h", "o", "r", "i", "z", "e", "r", ":", "%s">>

\* fmt.Sprintf with one string argument: the format with the argument in
\* the place of its verb
Sprintf(f, x) ==
    LET i == CHOOSE j \in 1..Len(f) : f[j] = "%s"
    IN  SubSeq(f, 1, i - 1) \o x \o SubSeq(f, i + 1, Len(f))

FormatComponentTokenKey(x) == Sprintf(ComponentTokenKeyFormat, x)

\* a tenant key built with the format of the platform key
FormatAuthorizerKeyAsComponent(x) == Sprintf(ComponentTokenKeyFormat, x)

FormatAuthorizerTokenKey(x) == Sprintf(AuthorizerTokenKeyFormat, x)

\* both keys are formatted for both identities
FormatKeys ==
    /\ ~fk.done
    /\ fk' = [fk EXCEPT !.done = TRUE,
                        !.compX = FormatComponentTokenKey(fk.x),
                        !.authX = FormatAuthorizerTokenKey(fk.x),
                        !.compY = FormatComponentTokenKey(fk.y),
                        !.authY = FormatAuthorizerTokenKey(fk.y)]
    /\ UNCHANGED <<ttlVars, clientVars, breakerVars, tokenVars, rq>>

KeysIdle ==
    fk = [x |-> <<>>, y |-> <<>>, done |-> FALSE, compX |-> <<>>,
          authX |-> <<>>, compY |-> <<>>, authY |-> <<>>]

----------------------------------------------------------------------------
(* The handlers of the article endpoints: http Handler.BatchGetArticles /  *)
(* GetArticle and grpc Handler.BatchGetPublishedArticles /                 *)
(* GetPublishedArticle.  A numeric parameter of a request is absent, text  *)
(* that is not a number (HTTP query only), or an integer.                  *)

\* the largest count of one batch request
MaxArticleCount == 20

\* a numeric parameter as it arrives: kind "absent", "junk" or "int"
Raw(k, n) == [kind |-> k, n |-> n]

\* strconv.Atoi(c.DefaultQuery(name, dflt)) with the error dropped: the
\* default for an absent parameter, 0 for text that is not a number; a gRPC
\* field that is not set reads as 0
Parse(surface, raw, dflt) ==
    IF raw.kind = "int" THEN raw.n
    ELSE IF raw.kind = "junk" THEN 0
    ELSE IF surface = "http" THEN dflt ELSE 0

\* a handler that only has a lower limit for count
CountAtLeastOne(c) == c >= 1

\* count < 1 || count > 20 is rejected
CountInRange(c) == c >= 1 /\ c <= MaxArticleCount

\* the parameter checks of the handlers, the same on both surfaces
Valid(r) ==
    IF r.method = "batch"
    THEN /\ r.tenant # ""
         /\ Parse(r.surface, r.offset, 0) >= 0
         /\ CountInRange(Parse(r.surface, r.count, 10))
         /\ Parse(r.surface, r.noContent, 0) \in {0, 1}
    ELSE r.tenant # "" /\ r.articleId # ""

\* the reply of a surface for a rejected request, a failed service call and
\* a successful one: the HTTP status with the code of the body, or the gRPC
\* status code
Reply(surface, outcome) ==
    IF surface = "http"
    THEN CASE outcome = "invalid" -> "400 CodeInvalidParam"
           [] outcome = "error"   -> "500 CodeInternalErr"
           [] OTHER               -> "200 CodeSuccess"
    ELSE CASE outcome = "invalid" -> "InvalidArgument"
           [] outcome = "error"   -> "Internal"
           [] OTHER               -> "OK"

\* what the article service returns for the tenant-id of the request: for
\* one that is not in the configuration the fault of GetAuthorizerToken
ServiceReplies(tenant) ==
    IF tenant = "anon" THEN {UnknownTenant}
    ELSE {Ok(1), Fault("transport", "nil", 0), Fault("breaker_open", "nil", 0)} \cup
         {Fault("api", "nil", c) : c \in ErrCodes \ {ErrCodeSuccess}}

NoRequest ==
    [surface |-> "none", method |-> "none", tenant |-> "", articleId |-> "",
     offset |-> Raw("absent", 0), count |-> Raw("absent", 0),
     noContent |-> Raw("absent", 0),
     pc |-> "idle", reply |-> "none", svcCalls |-> 0, svcRes |-> NoResult]

\* the handler up to the call of the article service: the parameters are
\* parsed and checked, and a request that fails a check is answered
HandlerValidates ==
    /\ rq.pc = "received"
    /\ rq' = IF Valid(rq)
             THEN [rq EXCEPT !.pc = "service", !.svcCalls = @ + 1]
             ELSE [rq EXCEPT !.pc = "replied",
                             !.reply = Reply(rq.surface, "invalid")]
    /\ UNCHANGED <<ttlVars, clientVars, breakerVars, tokenVars, fk>>

\* the article service returns: err != nil is answered as an internal error
HandlerReplies ==
    /\ rq.pc = "service"
    /\ \E res \in ServiceReplies(rq.tenant) :
         rq' = [rq EXCEPT !.pc = "replied", !.svcRes = res,
                          !.reply = Reply(rq.surface,
                                IF res.kind = "ok" THEN "ok" ELSE "error")]
    /\ UNCHANGED <<ttlVars, clientVars, breakerVars, tokenVars, fk>>

HandlerIdle == rq = NoRequest /\ KeysIdle

InitBreaker ==
    BreakerIdle /\ ClientIdle /\ TTLIdle /\ TokenIdle /\ HandlerIdle

NextBreaker ==
    \/ \E c \in Callers : ExecuteBegin(c)
    \/ \E c \in Callers : ExecuteEnd(c)
    \/ OpenTimeoutElapses

SpecBreaker == InitBreaker /\ [][NextBreaker]_vars

InitTTL ==
    /\ expiresIn \in 0..MaxExpiresIn
    /\ ttl = 0
    /\ ttlDone = FALSE
    /\ ClientIdle
    /\ BreakerIdle
    /\ TokenIdle
    /\ HandlerIdle

NextTTL == SetTokenTTL

\* NewHTTPClient with WithMaxRetries(k) (client.go:95-108)
InitClient ==
    /\ maxRetries \in 0..MaxRetriesBound
    /\ endpoint = "none" /\ cpc = "idle" /\ attempt = 0
    /\ backoff = 0 /\ lastErr = "nil" /\ attempts = 0 /\ sleeps = <<>>
    /\ ctxDone = FALSE /\ body = NoBody
    /\ callResult = NoResult
    /\ TTLIdle
    /\ BreakerIdle
    /\ TokenIdle
    /\ HandlerIdle

NextClient ==
    \/ CallEndpoint
    \/ AttemptFails
    \/ AttemptSucceeds
    \/ BackoffElapses
    \/ BackoffCancelled
    \/ CancelCall

SpecClient == InitClient /\ [][NextClient]_vars

SpecTTL == InitTTL /\ [][NextTTL]_vars

\* NewTokenService over a plain client: an empty cache, no call in flight
InitToken ==
    /\ mode \in Modes
    /\ breakerOn = FALSE
    /\ world = AnyWorld
    /\ cache = EmptyCache
    /\ sf = NoFlights
    /\ tasks = TaskSlots(NumTasks)
    /\ issued = 0
    /\ lastInv = 0
    /\ TTLIdle /\ ClientIdle /\ BreakerIdle /\ HandlerIdle

NextToken ==
    \/ \E t \in DOMAIN tasks : StartGetAuthorizerToken(t)
    \/ \E t \in DOMAIN tasks : StartGetComponentToken(t)
    \/ \E t \in DOMAIN tasks : StartInvalidate(t)
    \/ \E t \in DOMAIN tasks : AuthProbe(t)
    \/ \E t \in DOMAIN tasks : AuthDo(t)
    \/ \E t \in DOMAIN tasks : AuthRelease(t)
    \/ \E t \in DOMAIN tasks : AuthFetchBegin(t)
    \/ \E t \in DOMAIN tasks : AuthFetchEnd(t)
    \/ \E t \in DOMAIN tasks : AuthPut(t)
    \/ \E t \in DOMAIN tasks : CompLookup(t)
    \/ \E t \in DOMAIN tasks : CompProbe(t)
    \/ \E t \in DOMAIN tasks : CompDo(t)
    \/ \E t \in DOMAIN tasks : CompRelease(t)
    \/ \E t \in DOMAIN tasks : CompFetchBegin(t)
    \/ \E t \in DOMAIN tasks : CompFetchEnd(t)
    \/ \E t \in DOMAIN tasks : CompPut(t)
    \/ \E k \in Keys : CacheAges(k)

SpecToken == InitToken /\ [][NextToken]_vars

\* the services over the breaker client, which has seen earlier traffic
InitArticle ==
    /\ mode \in Modes
    /\ breakerOn = TRUE
    /\ world = AnyWorld
    /\ cache = EmptyCache
    /\ sf = NoFlights
    /\ tasks = TaskSlots(NumArticleTasks)
    /\ issued = 0
    /\ lastInv = 0
    /\ \E n \in {0, TripThreshold - 1} :
         cb = [NewBreaker EXCEPT !.counts.Requests = n,
                                 !.counts.ConsecutiveFailures = n]
    /\ callers = [c \in Callers |-> IdleCaller]
    /\ seqFails = 0 /\ elapsed = FALSE /\ calls = 0
    /\ TTLIdle /\ ClientIdle /\ HandlerIdle

NextArticle ==
    \/ \E t \in DOMAIN tasks : StartArticle(t)
    \/ \E t \in DOMAIN tasks : ArticleBegin(t)
    \/ \E t \in DOMAIN tasks : ArticleEnd(t)
    \/ \E t \in DOMAIN tasks : ArticleInvalidate(t)
    \/ \E t \in DOMAIN tasks : AuthProbe(t)
    \/ \E t \in DOMAIN tasks : AuthDo(t)
    \/ \E t \in DOMAIN tasks : AuthRelease(t)
    \/ \E t \in DOMAIN tasks : AuthFetchBegin(t)
    \/ \E t \in DOMAIN tasks : AuthFetchEnd(t)
    \/ \E t \in DOMAIN tasks : AuthPut(t)
    \/ \E t \in DOMAIN tasks : CompLookup(t)
    \/ \E t \in DOMAIN tasks : CompProbe(t)
    \/ \E t \in DOMAIN tasks : CompDo(t)
    \/ \E t \in DOMAIN tasks : CompRelease(t)
    \/ \E t \in DOMAIN tasks : CompFetchBegin(t)
    \/ \E t \in DOMAIN tasks : CompFetchEnd(t)
    \/ \E t \in DOMAIN tasks : CompPut(t)
    \/ OpenTimeoutElapses

SpecArticle == InitArticle /\ [][NextArticle]_vars

\* the consecutive failures the breaker has counted before the model's
\* requests make their first calls: the credential-expired faults of the
\* requests, out of TripThreshold concurrent ones, that the model does not
\* follow and that have not gone past their first article call
PriorFailures ==
    IF NumRequests >= TripThreshold THEN 0 ELSE TripThreshold - NumRequests

\* the breaker client in front of a healthy upstream and a working cache
\* that holds a tenant token the upstream no longer accepts
InitRecovery ==
    /\ mode \in Modes
    /\ breakerOn = TRUE
    /\ world = [AnyWorld EXCEPT !.healthy = TRUE, !.expiredUpTo = 1]
    /\ cache = [EmptyCache EXCEPT !["auth"] = Entry(1)]
    /\ sf = NoFlights
    /\ tasks = TaskSlots(NumRequests)
    /\ issued = 1
    /\ lastInv = 0
    /\ cb = [NewBreaker EXCEPT !.counts.Requests = PriorFailures,
                               !.counts.ConsecutiveFailures = PriorFailures]
    /\ callers = [c \in Callers |-> IdleCaller]
    /\ seqFails = 0 /\ elapsed = FALSE /\ calls = 0
    /\ TTLIdle /\ ClientIdle /\ HandlerIdle

NextRecovery ==
    \/ \E t \in DOMAIN tasks : StartArticle(t)
    \/ \E t \in DOMAIN tasks : ArticleBegin(t)
    \/ \E t \in DOMAIN tasks : ArticleEnd(t)
    \/ \E t \in DOMAIN tasks : ArticleInvalidate(t)
    \/ \E t \in DOMAIN tasks : AuthProbe(t)
    \/ \E t \in DOMAIN tasks : AuthDo(t)
    \/ \E t \in DOMAIN tasks : AuthRelease(t)
    \/ \E t \in DOMAIN tasks : AuthFetchBegin(t)
    \/ \E t \in DOMAIN tasks : AuthFetchEnd(t)
    \/ \E t \in DOMAIN tasks : AuthPut(t)
    \/ \E t \in DOMAIN tasks : CompLookup(t)
    \/ \E t \in DOMAIN tasks : CompProbe(t)
    \/ \E t \in DOMAIN tasks : CompDo(t)
    \/ \E t \in DOMAIN tasks : CompRelease(t)
    \/ \E t \in DOMAIN tasks : CompFetchBegin(t)
    \/ \E t \in DOMAIN tasks : CompFetchEnd(t)
    \/ \E t \in DOMAIN tasks : CompPut(t)

SpecRecovery == InitRecovery /\ [][NextRecovery]_vars

\* the Token Manager in front of a healthy upstream and a working cache, with
\* requests whose contexts can be cancelled while they run
InitCancel ==
    /\ mode \in Modes
    /\ breakerOn = FALSE
    /\ world = [AnyWorld EXCEPT !.healthy = TRUE]
    /\ cache = EmptyCache
    /\ sf = NoFlights
    /\ tasks = TaskSlots(NumTasks)
    /\ issued = 0
    /\ lastInv = 0
    /\ TTLIdle /\ ClientIdle /\ BreakerIdle /\ HandlerIdle

NextCancel ==
    \/ \E t \in DOMAIN tasks : StartGetAuthorizerToken(t)
    \/ \E t \in DOMAIN tasks : StartGetComponentToken(t)
    \/ \E t \in DOMAIN tasks : CancelRequest(t)
    \/ \E t \in DOMAIN tasks : AuthProbe(t)
    \/ \E t \in DOMAIN tasks : AuthDo(t)
    \/ \E t \in DOMAIN tasks : AuthRelease(t)
    \/ \E t \in DOMAIN tasks : AuthFetchBegin(t)
    \/ \E t \in DOMAIN tasks : AuthFetchEnd(t)
    \/ \E t \in DOMAIN tasks : AuthPut(t)
    \/ \E t \in DOMAIN tasks : CompLookup(t)
    \/ \E t \in DOMAIN tasks : CompProbe(t)
    \/ \E t \in DOMAIN tasks : CompDo(t)
    \/ \E t \in DOMAIN tasks : CompRelease(t)
    \/ \E t \in DOMAIN tasks : CompFetchBegin(t)
    \/ \E t \in DOMAIN tasks : CompFetchEnd(t)
    \/ \E t \in DOMAIN tasks : CompPut(t)
    \/ \E k \in Keys : CacheAges(k)

SpecCancel == InitCancel /\ [][NextCancel]_vars

\* the Token Manager over a plain client, with an upstream and a cache that
\* can fail at every call and with the logged cache errors kept
InitFaults ==
    /\ mode \in Modes
    /\ breakerOn = FALSE
    /\ world = [AnyWorld EXCEPT !.audit = TRUE]
    /\ cache = EmptyCache
    /\ sf = NoFlights
    /\ tasks = TaskSlots(NumFaultTasks)
    /\ issued = 0
    /\ lastInv = 0
    /\ TTLIdle /\ ClientIdle /\ BreakerIdle /\ HandlerIdle

\* the calls of the Token Manager, for a configured tenant-id and for one
\* that is not in the configuration
NextFaults ==
    \/ NextToken
    \/ \E t \in DOMAIN tasks : StartGetUnknownTenant(t)
    \/ \E t \in DOMAIN tasks : StartInvalidateUnknown(t)

SpecFaults == InitFaults /\ [][NextFaults]_vars

\* one request arrives at a handler: every surface and endpoint, a tenant-id
\* that is empty, configured or not configured, and parameters on both sides
\* of every limit
InitHandler ==
    /\ \E su \in {"http", "grpc"}, me \in {"batch", "get"},
          te \in {"", "auth", "anon"}, ar \in {"", "a1"},
          of \in {Raw("absent", 0), Raw("junk", 0)} \cup
                 {Raw("int", n) : n \in -1..1},
          co \in {Raw("absent", 0), Raw("junk", 0)} \cup
                 {Raw("int", n) : n \in {0, 1, MaxArticleCount,
                                         MaxArticleCount + 1}},
          nc \in {Raw("absent", 0)} \cup {Raw("int", n) : n \in 0..2} :
         /\ su = "grpc" => Raw("junk", 0) \notin {of, co}
         /\ rq = [NoRequest EXCEPT
                    !.surface = su, !.method = me, !.tenant = te,
                    !.articleId = ar, !.offset = of, !.count = co,
                    !.noContent = nc, !.pc = "received"]
    /\ TTLIdle /\ ClientIdle /\ BreakerIdle /\ TokenIdle /\ KeysIdle

NextHandler ==
    \/ HandlerValidates
    \/ HandlerReplies

SpecHandler == InitHandler /\ [][NextHandler]_vars

\* two identities of up to MaxIdLen characters, which may hold the
\* separator and letters of the formats
InitKeys ==
    /\ \E x, y \in UNION {[1..n -> {"a", "c", ":"}] : n \in 0..MaxIdLen} :
         fk = [x |-> x, y |-> y, done |-> FALSE, compX |-> <<>>,
               authX |-> <<>>, compY |-> <<>>, authY |-> <<>>]
    /\ rq = NoRequest
    /\ TTLIdle /\ ClientIdle /\ BreakerIdle /\ TokenIdle

SpecKeys == InitKeys /\ [][FormatKeys]_vars

\* the article pipeline over the breaker client, whatever state earlier
\* traffic left the breaker and the cache in, with an upstream that is not
\* held to the errcodes of models.go, requests that can be cancelled, and the
\* history of every request kept
InitPipeline ==
    /\ mode \in Modes
    /\ breakerOn = TRUE
    /\ world = [AnyWorld EXCEPT !.audit = TRUE, !.odd = TRUE]
    /\ cache \in {EmptyCache, [EmptyCache EXCEPT !["auth"] = Entry(1)],
                  [EmptyCache EXCEPT !["comp"] = Entry(PlatformToken)]}
    /\ sf = NoFlights
    /\ tasks = TaskSlots(NumPipelineTasks)
    /\ issued = 1
    /\ lastInv = 0
    /\ cb \in {NewBreaker,
               [NewBreaker EXCEPT !.counts.Requests = TripThreshold - 1,
                                  !.counts.ConsecutiveFailures = TripThreshold - 1],
               SetState(NewBreaker, "open"),
               [SetState(SetState(NewBreaker, "open"), "half-open") EXCEPT
                   !.counts.Requests = MaxRequests - 1]}
    /\ callers = [c \in Callers |-> IdleCaller]
    /\ seqFails = 0 /\ elapsed = FALSE /\ calls = 0
    /\ TTLIdle /\ ClientIdle /\ HandlerIdle

SpecPipeline ==
    InitPipeline /\ [][\/ NextArticle
                       \/ \E t \in DOMAIN tasks : CancelRequest(t)
                       \/ \E t \in DOMAIN tasks : StartGetAuthorizerToken(t)
                       \/ \E t \in DOMAIN tasks : StartGetComponentToken(t)
                       \/ \E t \in DOMAIN tasks : StartInvalidate(t)]_vars

\* the Token Manager in front of a healthy upstream and a working cache that
\* earlier calls have filled, with requests that can be cancelled and the
\* history of every call kept
InitProactive ==
    /\ mode \in Modes
    /\ breakerOn = FALSE
    /\ world = [AnyWorld EXCEPT !.healthy = TRUE, !.audit = TRUE]
    /\ \E a \in {"near", "far", "persist"}, c \in {"none", "near"} :
         cache = [EmptyCache EXCEPT
                    !["auth"] = [tok |-> 1, rem |-> a],
                    !["comp"] = IF c = "none" \/ mode = "simple" THEN Absent
                                ELSE [tok |-> PlatformToken, rem |-> c]]
    /\ sf = NoFlights
    /\ tasks = TaskSlots(NumTasks)
    /\ issued = 1
    /\ lastInv = 0
    /\ TTLIdle /\ ClientIdle /\ BreakerIdle /\ HandlerIdle

SpecProactive == InitProactive /\ [][NextCancel]_vars

\* the services over a plain client, with a working cache and an upstream
\* that answers every call and takes the first token for expired; the
\* tenant's token is cached and close to its expiry, or nothing is cached
InitLive ==
    /\ mode \in Modes
    /\ breakerOn = FALSE
    /\ world = [AnyWorld EXCEPT !.healthy = TRUE, !.expiredUpTo = 1]
    /\ cache \in {EmptyCache,
                  [EmptyCache EXCEPT !["auth"] = [tok |-> 1, rem |-> "near"]]}
    /\ sf = NoFlights
    /\ tasks = TaskSlots(NumTasks)
    /\ issued = 1
    /\ lastInv = 0
    /\ TTLIdle /\ ClientIdle /\ BreakerIdle /\ HandlerIdle

\* the calls of the Token Manager and the article requests
NextLive ==
    \/ \E t \in DOMAIN tasks : StartGetAuthorizerToken(t)
    \/ \E t \in DOMAIN tasks : StartGetComponentToken(t)
    \/ \E t \in DOMAIN tasks : StartInvalidate(t)
    \/ \E t \in DOMAIN tasks : StartArticle(t)
    \/ \E t \in DOMAIN tasks : ArticleBegin(t)
    \/ \E t \in DOMAIN tasks : ArticleEnd(t)
    \/ \E t \in DOMAIN tasks : ArticleInvalidate(t)
    \/ \E t \in DOMAIN tasks : AuthProbe(t)
    \/ \E t \in DOMAIN tasks : AuthDo(t)
    \/ \E t \in DOMAIN tasks : AuthRelease(t)
    \/ \E t \in DOMAIN tasks : AuthFetchBegin(t)
    \/ \E t \in DOMAIN tasks : AuthFetchEnd(t)
    \/ \E t \in DOMAIN tasks : AuthPut(t)
    \/ \E t \in DOMAIN tasks : CompLookup(t)
    \/ \E t \in DOMAIN tasks : CompProbe(t)
    \/ \E t \in DOMAIN tasks : CompDo(t)
    \/ \E t \in DOMAIN tasks : CompRelease(t)
    \/ \E t \in DOMAIN tasks : CompFetchBegin(t)
    \/ \E t \in DOMAIN tasks : CompFetchEnd(t)
    \/ \E t \in DOMAIN tasks : CompPut(t)

\* the next step of goroutine t: a cache call or a client call returns, or
\* the goroutine enters or leaves Do
Runs(t) ==
    \/ ArticleBegin(t) \/ ArticleEnd(t) \/ ArticleInvalidate(t)
    \/ AuthProbe(t) \/ AuthDo(t) \/ AuthRelease(t)
    \/ AuthFetchBegin(t) \/ AuthFetchEnd(t) \/ AuthPut(t)
    \/ CompLookup(t) \/ CompProbe(t) \/ CompDo(t) \/ CompRelease(t)
    \/ CompFetchBegin(t) \/ CompFetchEnd(t) \/ CompPut(t)

\* every cache call and every client call returns, and the Go scheduler runs
\* every goroutine that can run
SpecLive ==
    /\ InitLive /\ [][NextLive]_vars
    /\ \A t \in 1..NumTasks : WF_vars(Runs(t))

----------------------------------------------------------------------------
(* Claims *)

\* C7: on every endpoint, an HTTP-200 response whose body carries a non-zero
\* errcode makes the Client method return a fault, never a success value.
C7_NonZeroErrcodeIsFault ==
    (cpc = "done" /\ body.errcode # 0) => callResult.kind = "fault"

\* C8: for every lifetime L > 0, CalculateTTL(L) is L seconds minus 5 minutes
\* when that difference is positive and L seconds / 2 otherwise, and
\* 0 < CalculateTTL(L) < L seconds.
C8_TTLMath ==
    (ttlDone /\ expiresIn > 0) =>
        /\ ttl = IF expiresIn * 1000 - 300000 > 0
                 THEN expiresIn * 1000 - 300000
                 ELSE (expiresIn * 1000) \div 2
        /\ 0 < ttl
        /\ ttl < expiresIn * 1000

\* C9: with max_retries = k >= 0, a call whose every attempt fails with a
\* transport fault and whose caller does not cancel makes exactly k + 1
\* upstream attempts and then returns a transport fault.
C9_RetryCount ==
    (cpc = "done" /\ ~ctxDone /\ body = NoBody) =>
        /\ attempts = maxRetries + 1
        /\ callResult.kind = "fault"
        /\ callResult.class = "transport"

C9_Witness ==
    /\ cpc = "done" /\ ~ctxDone /\ body = NoBody
    /\ maxRetries = 3 /\ attempts = 4 /\ callResult.class = "transport"

\* C10: a call made after 5 consecutive calls through the breaker client
\* failed with transport faults, and before the open timeout has elapsed,
\* returns breaker-open without the wrapped client being invoked.
C10_BreakerTrip ==
    \A c \in Callers :
        callers[c].after5 =>
            /\ callers[c].outcome = "breaker_open"
            /\ ~callers[c].inner

C10_Witness ==
    \E c \in Callers :
        /\ callers[c].after5
        /\ callers[c].st = "returned"
        /\ callers[c].outcome = "breaker_open"
        /\ cb.state = "open"

\* C1: of the GetAuthorizerToken calls for one tenant that each saw a cache
\* miss while the others were in progress, at most one invokes the upstream
\* token endpoint, and all that return a token return the same one.
C1_Coalescing ==
    \A t \in DOMAIN tasks : \A u \in tasks[t].peers :
        /\ tasks[t].op = "GA" /\ tasks[u].op = "GA"
           => tasks[t].fetched + tasks[u].fetched <= 1
        /\ (tasks[t].pc = "done" /\ tasks[u].pc = "done"
            /\ tasks[t].ret.kind = "ok" /\ tasks[u].ret.kind = "ok")
           => tasks[t].ret.token = tasks[u].ret.token

\* C2: a GetAuthorizerToken call that starts after InvalidateAndRefreshToken
\* has returned a token returns a token that the upstream issued after that
\* invalidation began, never an older one.
C2_FreshAfterInvalidate ==
    \A t \in DOMAIN tasks :
        (tasks[t].op = "GA" /\ tasks[t].pc = "done"
         /\ tasks[t].ret.kind = "ok" /\ tasks[t].ret.token # 0)
        => tasks[t].ret.token > tasks[t].floor

C4_RecoveryUnderLoad ==
    \A t \in DOMAIN tasks :
        (tasks[t].op = "ART" /\ tasks[t].pc = "done" /\ tasks[t].expired1)
        => tasks[t].ret.kind = "ok"

\* C5: for each coalescing key at most one refresh started through the
\* singleflight group (by a cache-miss read or a background refresh) is
\* running, so at most one such upstream fetch is in flight, and a requester
\* waits only while such a refresh is running; the tenant fetch of
\* InvalidateAndRefreshToken does not go through the group.
C5_OneCoalescedRefresh ==
    /\ Cardinality({t \in DOMAIN tasks : RunsFn(tasks[t], "auth")}) <= 1
    /\ Cardinality({t \in DOMAIN tasks : RunsFn(tasks[t], "comp")}) <= 1
    /\ \A t \in DOMAIN tasks :
          /\ tasks[t].pc = "ga_wait" => \E u \in DOMAIN tasks : RunsFn(tasks[u], "auth")
          /\ tasks[t].pc = "gc_wait" => \E u \in DOMAIN tasks : RunsFn(tasks[u], "comp")

C5_Witness ==
    \E t, u, w \in DOMAIN tasks :
        /\ tasks[t].pc = "f_api" /\ ~InvRole(tasks[t])
        /\ tasks[u].pc = "ga_wait"
        /\ tasks[w].pc = "f_api" /\ InvRole(tasks[w])

\* C5 as stated: for each coalescing key at most one upstream fetch is in
\* flight at any time, the fetches of InvalidateAndRefreshToken included.
C5_OneOutstandingFetch ==
    /\ Cardinality({t \in DOMAIN tasks : tasks[t].pc = "f_api"}) <= 1
    /\ Cardinality({t \in DOMAIN tasks : tasks[t].pc = "cf_api"}) <= 1

\* C6: a GetAuthorizerToken or GetComponentToken request whose cache lookup
\* returned a non-empty value makes no upstream call and returns exactly that
\* value.
C6_CacheFirst ==
    \A t \in DOMAIN tasks :
        (tasks[t].op \in {"GA", "GC"} /\ tasks[t].lookup # 0)
        => /\ tasks[t].upcalls = 0
           /\ tasks[t].pc = "done" => tasks[t].ret = Ok(tasks[t].lookup)

C6_Witness ==
    \E t, u \in DOMAIN tasks :
        /\ tasks[t].op = "GA" /\ tasks[t].pc = "done"
        /\ tasks[t].lookup # 0 /\ tasks[t].ret = Ok(tasks[t].lookup)
        /\ tasks[t].upcalls = 0
        /\ tasks[u].op = "BGA" /\ tasks[u].upcalls > 0

\* C11: a caller whose context is cancelled while it waits in the coalescing
\* step as a follower returns the cancellation fault, not whatever the call in
\* flight delivers when it ends
C11_CancelledWaiterDetaches ==
    \A t \in DOMAIN tasks :
        (tasks[t].pc = "done" /\ tasks[t].cwait) => tasks[t].ret = CtxFault

\* C12: when InvalidateAndRefreshToken has returned a token, whatever its
\* cache delete and cache put did, the tenant entry of the cache is not the
\* token that was cached when the invalidation was called
C12_InvalidateDeletes ==
    \A t \in DOMAIN tasks :
        (tasks[t].invCalls > 0 /\ tasks[t].pc \in {"done", "a_call", "a_api"})
            => ~tasks[t].stale

\* C13: a GetAuthorizerToken or GetComponentToken call whose cache lookup
\* returned an error goes the way of a miss, to the coalesced fetch, and
\* returns the token or the fault of that fetch, never the cache error
C13_ReadFailureIsMiss ==
    \A t \in DOMAIN tasks :
        (tasks[t].op \in {"GA", "GC"} /\ tasks[t].readErr) =>
            /\ tasks[t].miss
            /\ tasks[t].lookup = 0
            /\ tasks[t].pc # (IF tasks[t].op = "GA" THEN "ga_ttl" ELSE "gc_ttl")
            /\ tasks[t].pc = "done" =>
                  /\ tasks[t].ret.kind \in {"ok", "fault"}
                  /\ tasks[t].ret.class # "cache"

C13_Witness ==
    \E t \in DOMAIN tasks : \E u \in DOMAIN tasks :
        /\ tasks[t].op = "GA" /\ tasks[t].readErr /\ tasks[t].pc = "done"
        /\ tasks[t].ret.kind = "ok" /\ tasks[t].ret.token # 0
        /\ tasks[t].upcalls > 0
        /\ tasks[u].op = "GC" /\ tasks[u].readErr /\ tasks[u].pc = "done"
        /\ tasks[u].ret.kind = "fault"

\* C14: when the cache put of a token operation fails after the upstream
\* has issued a token, the operation returns that token without an error,
\* the token is not in the cache, and no other call is served it from the
\* cache
C14_WriteFailureSwallowed ==
    \A t \in DOMAIN tasks :
        tasks[t].putErr =>
            /\ (tasks[t].op \in {"GA", "INV", "GC"} /\ tasks[t].pc = "done")
                   => tasks[t].ret = Ok(tasks[t].unsaved)
            /\ (tasks[t].op \in {"GA", "BGA", "INV"} /\ tasks[t].unsaved # 0) =>
                   /\ cache["auth"].tok # tasks[t].unsaved
                   /\ \A u \in DOMAIN tasks :
                         tasks[u].op \in {"GA", "ART"} =>
                             tasks[u].lookup # tasks[t].unsaved

\* a call returns the token whose put failed; the next call misses, fetches
\* again and returns another token
C14_Witness ==
    \E t \in DOMAIN tasks : \E u \in DOMAIN tasks :
        /\ tasks[t].op = "GA" /\ tasks[t].pc = "done" /\ tasks[t].putErr
        /\ tasks[t].unsaved # 0 /\ tasks[t].ret = Ok(tasks[t].unsaved)
        /\ tasks[u].op = "GA" /\ tasks[u].pc = "done" /\ tasks[u].miss
        /\ tasks[u].fetched = 1 /\ tasks[u].ret.kind = "ok"
        /\ tasks[u].ret.token > tasks[t].unsaved

C16_UnknownTenant ==
    /\ cache["anon"] = Absent
    /\ \A t \in DOMAIN tasks :
          tasks[t].key = "anon" =>
              /\ tasks[t].upcalls = 0
              /\ tasks[t].pc \notin {"gc_lookup", "gc_ttl", "gc_do", "gc_wait",
                                     "cf_call", "cf_api", "cf_put", "gc_release",
                                     "f_call", "f_api", "f_put"}
              /\ tasks[t].pc = "done" => tasks[t].ret = UnknownTenant

C16_Witness ==
    \E t \in DOMAIN tasks : \E u \in DOMAIN tasks :
        /\ mode = "two_level"
        /\ tasks[t].key = "anon" /\ tasks[t].op = "GA" /\ tasks[t].miss
        /\ tasks[t].pc = "done" /\ tasks[t].ret = UnknownTenant
        /\ tasks[u].key = "anon" /\ tasks[u].op = "INV"
        /\ tasks[u].pc = "done" /\ tasks[u].ret = UnknownTenant

\* C17: a request for a tenant-id that is not in the configuration, which
\* the article service answers with the unknown-tenant fault, is replied to
\* as an invalid argument (HTTP 400 / gRPC InvalidArgument)
C17_UnknownTenantIsInvalidArgument ==
    (rq.pc = "replied" /\ rq.svcRes = UnknownTenant)
        => rq.reply = Reply(rq.surface, "invalid")

\* C18: on both surfaces a request with an integer count outside 1..20, an
\* integer offset below 0, an empty tenant-id or, for one article, an empty
\* article-id is rejected as an invalid parameter and the article service
\* is not called
C18_Validation ==
    ( \/ rq.tenant = ""
      \/ /\ rq.method = "batch"
         /\ \/ rq.count.kind = "int" /\ rq.count.n \notin 1..MaxArticleCount
            \/ rq.offset.kind = "int" /\ rq.offset.n < 0
      \/ rq.method = "get" /\ rq.articleId = "" )
    => /\ rq.svcCalls = 0
       /\ rq.pc \in {"idle", "received", "replied"}
       /\ rq.pc = "replied" => rq.reply = Reply(rq.surface, "invalid")

C18_Witness ==
    /\ rq.pc = "replied" /\ rq.method = "batch" /\ rq.tenant = "auth"
    /\ rq.offset = Raw("int", 0) /\ rq.count = Raw("int", MaxArticleCount + 1)
    /\ rq.reply = Reply(rq.surface, "invalid") /\ rq.svcCalls = 0

\* C19: the platform key of an identity is "wechat:token:component:"
\* followed by the identity and its tenant key is "wechat:token:authorizer:"
\* followed by the identity; two different identities have different keys,
\* and no platform key is a tenant key
C19_KeyFormat ==
    LET comp == <<"w", "e", "c", "h", "a", "t", ":", "t", "o", "k", "e", "n",
                  ":", "c", "o", "m", "p", "o", "n", "e", "n", "t", ":">>
        auth == <<"w", "e", "c", "h", "a", "t", ":", "t", "o", "k", "e", "n",
                  ":", "a", "u", "t", "h", "o", "r", "i", "z", "e", "r", ":">>
    IN  fk.done =>
          /\ fk.compX = comp \o fk.x /\ fk.compY = comp \o fk.y
          /\ fk.authX = auth \o fk.x /\ fk.authY = auth \o fk.y
          /\ fk.x # fk.y => (fk.compX # fk.compY /\ fk.authX # fk.authY)
          /\ {fk.compX, fk.compY} \cap {fk.authX, fk.authY} = {}

C19_Witness ==
    /\ fk.done /\ fk.x # fk.y
    /\ Len(fk.x) = MaxIdLen /\ fk.x[1] = ":" /\ Len(fk.y) > 0
    /\ Len(fk.authX) = Len(fk.compX) + 1

\* C20: a finished GetComponentToken, GetAuthorizerToken or
\* InvalidateAndRefreshToken that returns a nil error returns a credential
\* the upstream issued, never the empty token
C20_SuccessHasToken ==
    \A t \in DOMAIN tasks :
        (/\ tasks[t].op \in {"GA", "GC", "INV"}
         /\ tasks[t].pc = "done"
         /\ tasks[t].ret.kind = "ok") => tasks[t].ret.token # 0

\* C21: a caller whose own request is not cancelled never receives a
\* cancellation fault: when the goroutine that runs a coalesced fetch is
\* cancelled, the waiters whose contexts are live still get a token or a
\* fault of the upstream
C21_LiveFollowerNotCancelled ==
    \A t \in DOMAIN tasks :
        (/\ tasks[t].op \in {"GA", "GC"}
         /\ tasks[t].pc = "done"
         /\ ~tasks[t].cancelled) => tasks[t].ret.cause # "ctx_canceled"

\* C22: the recovery path is taken after the first article call if and only
\* if that call failed with an upstream fault whose errcode is 40001 or
\* 42001: for no other errcode, transport fault, breaker fault or
\* cancellation
C22_ExpiryDetectionIsExact ==
    \A t \in DOMAIN tasks :
        tasks[t].first.kind # "none" =>
            (tasks[t].expired1 <=>
                /\ tasks[t].first.class = "api"
                /\ tasks[t].first.code \in {40001, 42001})

\* C23: a request whose first article call failed with a fault other than
\* credential-expired (errcode 40001 or 42001) returns that fault, has not
\* called InvalidateAndRefreshToken and has made no second article call
C23_OtherFaultsPassThrough ==
    \A t \in DOMAIN tasks :
        (/\ tasks[t].first.kind = "fault"
         /\ ~(tasks[t].first.class = "api"
              /\ tasks[t].first.code \in ExpiredCodes))
        => /\ tasks[t].pc = "done"
           /\ tasks[t].ret = tasks[t].first
           /\ tasks[t].invCalls = 0
           /\ tasks[t].artCalls = 1

\* C24: a second article call is made only after InvalidateAndRefreshToken
\* has returned a token, and it carries that token, never the token of the
\* first call; when InvalidateAndRefreshToken returns a fault the request
\* returns that fault without a second article call; a request that made a
\* second call returns the result of that call
C24_RetryWithFreshToken ==
    \A t \in DOMAIN tasks :
        /\ Len(tasks[t].sent) = 2
           => /\ tasks[t].fresh.kind = "ok"
              /\ tasks[t].sent[2] = tasks[t].fresh.token
              /\ tasks[t].sent[2] # tasks[t].sent[1]
        /\ tasks[t].fresh.kind = "fault"
           => /\ tasks[t].pc = "done" /\ tasks[t].ret = tasks[t].fresh
              /\ Len(tasks[t].sent) = 1
        /\ (tasks[t].pc = "done" /\ Len(tasks[t].sent) = 2)
           => tasks[t].ret = tasks[t].second

\* C25: while the breaker is closed, the return of a call that was admitted
\* since the breaker's last change of state counts whatever it returned: an
\* error of any kind (transport, errcode, cancellation) adds one to the
\* consecutive failures and the fifth in a row opens the breaker, and a
\* response sets the consecutive failures to zero
C25_ErrorsCount ==
    [][\A c \in Callers :
          (/\ callers[c].st = "inner" /\ callers'[c].st = "returned"
           /\ cb.state = "closed"
           /\ callers[c].before = cb.generation)
          => IF callers'[c].outcome = "ok"
             THEN cb'.state = "closed" /\ cb'.counts.ConsecutiveFailures = 0
             ELSE IF cb.counts.ConsecutiveFailures + 1 >= 5
             THEN cb'.state = "open"
             ELSE /\ cb'.state = "closed"
                  /\ cb'.counts.ConsecutiveFailures =
                        cb.counts.ConsecutiveFailures + 1]_vars

\* five calls were made, the last of them failed with an errcode fault, a
\* cancellation and a transport fault, and the breaker is open
C25_Witness ==
    /\ cb.state = "open" /\ cb.generation = 1 /\ calls = 5
    /\ \A c \in Callers : callers[c].st = "returned"
    /\ {callers[c].outcome : c \in Callers} = {"api", "cancelled", "transport"}

\* C25 as stated: while the breaker is closed, every error that the wrapped
\* client returns counts as a failure, and every response sets the
\* consecutive failures to zero
C25_EveryErrorCounts ==
    [][\A c \in Callers :
          (/\ callers[c].st = "inner" /\ callers'[c].st = "returned"
           /\ cb.state = "closed")
          => IF callers'[c].outcome = "ok"
             THEN cb'.state = "closed" /\ cb'.counts.ConsecutiveFailures = 0
             ELSE IF cb.counts.ConsecutiveFailures + 1 >= 5
             THEN cb'.state = "open"
             ELSE /\ cb'.state = "closed"
                  /\ cb'.counts.ConsecutiveFailures =
                        cb.counts.ConsecutiveFailures + 1]_vars

\* C26: a call made while the breaker is open and its timeout has not run
\* out fails fast with breaker-open; the first call made after the timeout
\* has run out is admitted as a half-open probe and reaches the wrapped
\* client; the breaker leaves the open state only after the timeout has run
\* out and only when it is observed, by a call attempt or by the return of a
\* call in flight, never by the passing of time alone
C26_OpenToHalfOpen ==
    [][/\ (calls' = calls + 1 /\ cb.state = "open" /\ ~cb.expired)
          => /\ cb' = cb
             /\ \A c \in Callers :
                   /\ callers'[c].st = "inner" => callers[c].st = "inner"
                   /\ callers'[c] # callers[c]
                      => /\ callers'[c].st = "returned"
                         /\ callers'[c].outcome = "breaker_open"
                         /\ ~callers'[c].inner
       /\ (/\ calls' = calls + 1
           /\ \/ cb.state = "open" /\ cb.expired
              \/ cb.state = "half-open" /\ cb.counts.Requests = 0)
          => /\ cb'.state = "half-open" /\ cb'.counts.Requests = 1
             /\ \E c \in Callers :
                   /\ callers[c].st # "inner"
                   /\ callers'[c].st = "inner" /\ callers'[c].inner
       /\ (cb.state = "open" /\ cb'.state # "open")
          => /\ cb.expired /\ cb'.state = "half-open"
             /\ callers' # callers]_vars

\* a call was rejected by the open breaker, and after the timeout a call has
\* been admitted as the probe of the half-open breaker
C26_Witness ==
    /\ cb.state = "half-open" /\ cb.counts.Requests = 1
    /\ \E c, e \in Callers :
          /\ callers[c].st = "inner" /\ callers[c].before = cb.generation
          /\ callers[e].st = "returned" /\ callers[e].outcome = "breaker_open"

\* C26 as stated: the breaker leaves the open state only on a call attempt
C26_OnlyOnCallAttempt ==
    [][(cb.state = "open" /\ cb'.state # "open") => calls' = calls + 1]_vars

\* C27: while the breaker is half-open, the successful return of a probe
\* moves it to closed with the consecutive failures at zero
C27_OneSuccessCloses ==
    [][\A c \in Callers :
          (/\ callers[c].st = "inner" /\ callers'[c].st = "returned"
           /\ callers'[c].outcome = "ok"
           /\ cb.state = "half-open" /\ callers[c].before = cb.generation)
          => /\ cb'.state = "closed"
             /\ cb'.counts.ConsecutiveFailures = 0]_vars

\* C28: a half-open breaker has admitted at most 3 calls; while it is
\* half-open with 3 calls admitted no call reaches the wrapped client and
\* every client call that is made gets breaker-overloaded; a request that got
\* breaker-open or breaker-overloaded makes no further client call and
\* returns that fault
C28_HalfOpenSaturation ==
    /\ [](cb.state = "half-open" => cb.counts.Requests <= 3)
    /\ [](\A t \in DOMAIN tasks :
            tasks[t].rej # "none"
            => /\ tasks[t].pc \in {"done", "ga_release", "gc_release"}
               /\ tasks[t].pc = "done" => tasks[t].ret.class = tasks[t].rej)
    /\ [][(cb.state = "half-open" /\ cb.counts.Requests >= 3)
          => \A t \in DOMAIN tasks :
                /\ tasks'[t].upcalls = tasks[t].upcalls
                /\ (/\ tasks[t].pc \in {"f_call", "cf_call", "a_call"}
                    /\ tasks'[t].pc # tasks[t].pc)
                   => tasks'[t].rej = "too_many"]_vars

\* a request whose first client call was the third probe of the half-open
\* breaker and succeeded, and whose next call got breaker-overloaded
C28_Witness ==
    /\ cb.state = "half-open" /\ cb.counts.Requests = 3
    /\ \E t \in DOMAIN tasks :
          /\ tasks[t].pc = "done" /\ tasks[t].upcalls = 1
          /\ tasks[t].rej = "too_many" /\ tasks[t].ret.class = "too_many"

\* C29: a TTL probe of a cache hit starts a background refresh if and only
\* if it succeeded and reported a remaining lifetime above 0 and below the
\* threshold, and these are the only background refreshes; a call that hit
\* the cache returns the cached value at its probe, whatever the probe said,
\* without entering Do and without a call to the upstream
C29_ProactiveRefreshTrigger ==
    /\ \A t \in DOMAIN tasks :
         tasks[t].probe # "none" =>
             (tasks[t].spawned <=> tasks[t].probe = "near")
    /\ Cardinality({t \in DOMAIN tasks : tasks[t].op \in {"BGA", "BGC"}})
         = Cardinality({t \in DOMAIN tasks : tasks[t].spawned})
    /\ \A t \in DOMAIN tasks :
         (tasks[t].op \in {"GA", "GC"} /\ tasks[t].lookup # 0) =>
             /\ tasks[t].pc \in {"ga_ttl", "gc_ttl", "done"}
             /\ tasks[t].upcalls = 0
             /\ tasks[t].pc = "done" <=> tasks[t].probe # "none"
             /\ tasks[t].pc = "done" => tasks[t].ret = Ok(tasks[t].lookup)

\* a call has returned its cached token and left a background refresh
\* running, another has returned its own with nothing started
C29_Witness ==
    \E t, u, v \in DOMAIN tasks :
        /\ tasks[t].op = "GA" /\ tasks[t].pc = "done" /\ tasks[t].spawned
        /\ tasks[t].ret = Ok(tasks[t].lookup)
        /\ tasks[u].op = "BGA" /\ tasks[u].pc # "done"
        /\ tasks[v].op = "GA" /\ tasks[v].pc = "done" /\ tasks[v].lookup # 0
        /\ tasks[v].probe \in {"far", "err", "persist", "gone"}

\* C30: a background refresh is never ended by the cancellation of a
\* request: its Do never returns the error of a cancelled context
C30_RefreshOutlivesRequests ==
    \A t \in DOMAIN tasks :
        (tasks[t].op \in {"BGA", "BGC"} /\ tasks[t].pc = "done")
            => tasks[t].ret.cause # "ctx_canceled"

\* C33: every entry is written with a TTL above zero and below the lifetime
\* the upstream reported, for every expires_in a response can carry (a TTL
\* of zero makes the cache keep the entry without expiry)
C33_PositiveExpiry ==
    ttlDone => (0 < ttl /\ ttl < expiresIn * Second)

\* C34: a client call that got HTTP 200 and a body with a non-zero errcode
\* made no attempt after that answer (one attempt more than the attempts
\* that failed in transport) and returns the fault with that errcode, on
\* every endpoint
C34_ErrcodeNotRetried ==
    (cpc = "done" /\ body.errcode # 0) =>
        /\ attempts = attempt + 1
        /\ callResult = Fault("api", "nil", body.errcode)

\* C35: once the caller's context is done, no backoff wait completes and no
\* new attempt is begun, and the call returns a fault whose cause is the
\* cancellation, wherever in the loop the cancellation arrived
C35_RetryCancellation ==
    /\ [](cpc = "done" /\ ctxDone => /\ callResult.kind = "fault"
                                     /\ callResult.cause = "ctx_canceled")
    /\ [][ctxDone => /\ sleeps' = sleeps
                     /\ attempts' <= attempts + 1
                     /\ cpc' = "attempt" => cpc = "attempt"]_vars

\* a call cancelled during the wait before its second retry
C35_Witness ==
    /\ cpc = "done" /\ ctxDone /\ maxRetries = 3
    /\ attempts = 2 /\ sleeps = <<InitialBackoff>>
    /\ callResult = Fault("cancelled", "ctx_canceled", 0)

\* C36: no wait precedes the first attempt, the wait before the i-th retry
\* is min(100 ms * 2^(i-1), 5 s), and a call with max_retries = 3 that
\* failed in transport four times waited 100, 200 and 400 ms
C36_BackoffSchedule ==
    /\ Len(sleeps) <= attempt
    /\ attempts = 0 => sleeps = <<>>
    /\ \A i \in 1..Len(sleeps) :
         /\ sleeps[i] = Min(InitialBackoff * 2 ^ (i - 1), MaxBackoff)
         /\ sleeps[i] <= MaxBackoff
    /\ (cpc = "done" /\ ~ctxDone /\ body = NoBody /\ maxRetries = 3) =>
         sleeps = <<100, 200, 400>>

\* the seventh retry waits the cap
C36_Witness ==
    /\ Len(sleeps) = 7 /\ sleeps[6] = 3200 /\ sleeps[7] = MaxBackoff
    /\ attempts >= 7

\* C31: in two-level mode the tenant refresh endpoint is called only with a
\* platform credential that the cache or the platform endpoint supplied, and
\* a call whose platform fetch failed has not called the tenant endpoint; in
\* simple mode nothing reads, writes or fetches the platform credential
C31_TenantNeedsPlatform ==
    /\ mode = "two_level" =>
         \A t \in DOMAIN tasks :
             /\ tasks[t].pc \in {"f_call", "f_api"} =>
                    tasks[t].ctok = PlatformToken
             /\ tasks[t].upErr = "comp" => tasks[t].fetched = 0
    /\ mode = "simple" =>
         /\ cache["comp"] = Absent
         /\ sf["comp"] = 0
         /\ \A t \in DOMAIN tasks :
                /\ tasks[t].ctok = 0
                /\ tasks[t].pc \notin {"gc_lookup", "gc_ttl", "gc_do",
                                       "gc_wait", "cf_call", "cf_api",
                                       "cf_put", "gc_release"}

C38_HitsBypassBreaker ==
    /\ [](\A t \in DOMAIN tasks :
            tasks[t].op \in {"GA", "GC"} =>
                /\ tasks[t].lookup # 0 =>
                       /\ tasks[t].upcalls = 0
                       /\ tasks[t].rej = "none"
                       /\ tasks[t].pc = "done" =>
                              tasks[t].ret = Ok(tasks[t].lookup)
                /\ tasks[t].ret.class \in {"breaker_open", "too_many"} =>
                       tasks[t].miss /\ tasks[t].lookup = 0)
    /\ [][\A t \in DOMAIN tasks :
            /\ (tasks[t].pc \in {"f_call", "cf_call"}
                /\ tasks'[t].pc # tasks[t].pc)
               => (tasks'[t].upcalls = tasks[t].upcalls
                      <=> Rejection(CurrentState(cb)) # "none")
            /\ (/\ tasks[t].pc = "a_api" /\ tasks'[t].pc # "a_api"
                /\ (IF tasks[t].phase = "first" THEN tasks'[t].first
                    ELSE tasks'[t].second).kind = "fault"
                /\ tasks[t].before = CurrentState(cb).generation)
               => cb' = OnFailure(CurrentState(cb))]_vars

\* the breaker is open after the failure of an article call, and the refresh
\* of the same request was rejected without a call of the token endpoint
C38_Witness ==
    /\ cb.state = "open"
    /\ \E t \in DOMAIN tasks :
          /\ tasks[t].op = "ART" /\ tasks[t].pc = "done"
          /\ tasks[t].lookup # 0
          /\ tasks[t].first.class = "api" /\ tasks[t].artCalls = 1
          /\ tasks[t].upErr = "auth" /\ tasks[t].rej = "breaker_open"
          /\ tasks[t].upcalls = 1
          /\ tasks[t].ret.class = "breaker_open"

\* C37: from some point on every call of the Token Manager, every article
\* request and every background refresh that has started has returned,
\* unless the goroutines of the model have run out while a hit path is about
\* to start a background refresh; a request makes at most two article calls
\* and at most one invalidation
C37_Termination ==
    /\ [](\A t \in DOMAIN tasks :
            tasks[t].artCalls <= 2 /\ tasks[t].invCalls <= 1)
    /\ <>[](\/ \A t \in DOMAIN tasks :
                  tasks[t].op # "none" => tasks[t].pc = "done"
            \/ /\ FreeSlots = {}
               /\ \E u \in DOMAIN tasks :
                     \/ tasks[u].pc = "ga_ttl"
                        /\ NeedsRefresh(cache[tasks[u].key])
                     \/ tasks[u].pc = "gc_ttl" /\ NeedsRefresh(cache["comp"]))

\* a tenant refresh has entered the coalescing step of the platform key
\* while another goroutine runs the platform fetch, a third goroutine waits
\* for the tenant refresh
C37_Witness ==
    \E t, u, v \in DOMAIN tasks :
        /\ tasks[t].op \in {"GA", "BGA"} /\ tasks[t].pc = "gc_wait"
        /\ sf["auth"] = t /\ sf["comp"] = u
        /\ tasks[v].pc = "ga_wait"

====
